---- MODULE Spec2Model ----
(***************************************************************************)
(* Model of src/main.py: a Telegram bot (python-telegram-bot) that keeps a *)
(* weekly schedule, a duty roster, homework and jokes in JSON files and    *)
(* drives two ConversationHandlers (menu_conv, si_conv) plus plain         *)
(* command handlers and two daily jobs.                                    *)
(*                                                                         *)
(* Strings of the source that are not ASCII are transliterated:            *)
(*   "Понедельник" -> "Ponedelnik", "пн" -> "pn", "все" -> "vse", ...      *)
(* Button labels and reply texts are named by ASCII tags; the comment at   *)
(* each tag gives the source text.                                         *)
(*                                                                         *)
(* Dates are day numbers; day 0 is 2024-09-02 (a Monday).                  *)
(* An optional value (Python None or a value) is <<>> or <<v>>.            *)
(***************************************************************************)
EXTENDS Integers, Sequences, FiniteSets, TLC

VARIABLES
    settings,     \* settings.json: [chat_id, admins]
    schedule,     \* schedule.json: key -> text
    duty_list,    \* duty_list.json: list of entries
    jokes,        \* jokes.json: list of texts
    homework,     \* homework.json: key -> task text
    tmp_uploads,  \* names of the files present in TMP_UPLOADS
    menu_conv,    \* menu_conv._conversations: (chat, user) -> state, END when absent
    si_conv,      \* si_conv._conversations:   (chat, user) -> state, END when absent
    user_data,    \* context.user_data: user -> dict
    today,        \* datetime.now().date()
    cfg,          \* context.bot_data["cfg"]
    last,         \* the update processed by the last step and what its handler did
    edit_log,     \* history: per conversation, the schedule when its edit dialog
                  \* was entered, the texts the dialog has taken, whether
                  \* a dialog of this conversation has saved the schedule, and
                  \* the entries its students dialog has appended since entered
    coros         \* the coroutines of the event loop: of each its position and
                  \* the record it has loaded

vars == <<settings, schedule, duty_list, jokes, homework, tmp_uploads,
          menu_conv, si_conv, user_data, today, cfg, last, edit_log, coros>>

-----------------------------------------------------------------------------
(* Bounds of the model *)

MaxDuty == 2        \* longest duty_list built by the dialogs
MaxJokes == 2       \* longest jokes list built by the dialogs
MaxDay == 9         \* last day number of the duty runs
MaxRoster == 3      \* longest roster of the duty runs
MaxTexts == 5       \* most texts one conversation's schedule dialog takes
MaxDateDay == 7     \* 2024-09-09, the last day of the date parsing runs
MaxHwDay == 15      \* last day number of the homework runs (2024-09-17)

-----------------------------------------------------------------------------
(* Conversation states *)

ST_MENU == 0
ST_SET_CHAT == 1
ST_ADD_ADMIN == 2
ST_ADD_STUDENTS == 3
ST_EDIT_SCHEDULE == 4
ST_JOKE_ADD == 5

SI_CHAT == 0
SI_PHOTO == 1
SI_TEXT == 2

\* ConversationHandler.END; returning it removes the conversation key, so a
\* conversation map holds END exactly where the key is absent.
END == -1

\* The value of an expression computed once: the element of a singleton.
Once(singleton) == CHOOSE v \in singleton : TRUE

None == <<>>
Some(v) == <<v>>

\* Python truthiness of an optional integer (None and 0 are falsy).
Truthy(opt) == opt # None /\ opt[1] # 0

EmptyDict == [x \in {} |-> ""]

\* d with key k set to v / with key k removed (dict.pop(k, None)).
DictSet(d, k, v) == (k :> v) @@ d
DictPop(d, k) == [x \in (DOMAIN d) \ {k} |-> d[x]]
DictGet(d, k, default) == IF k \in DOMAIN d THEN d[k] ELSE default

-----------------------------------------------------------------------------
(* Users, chats, updates *)

Users == {"u0", "u1", "u2"}  \* u0 has no username
Chats == {"priv", "grp"}     \* the user's private chat / a group chat
Keys == Chats \X Users       \* ConversationHandler key (chat_id, user_id)

\* update.effective_chat.type == "private"
is_private(c) == c = "priv"

\* username_tag: "@" + username, "" for a user without username.
username_tag(u) ==
    CASE u = "u1" -> "@user1"
      [] u = "u2" -> "@user2"
      [] OTHER -> ""

\* An update: a command (name, context.args), a text message, a photo (caption
\* in text, "" when there is none) or a document.
Upd(kind, name, text) == [kind |-> kind, name |-> name, text |-> text, args |-> <<>>]
Command(name) == Upd("command", name, "")
Cmd(name, args) == [Command(name) EXCEPT !.args = args]
Text(t) == Upd("text", "", t)
Photo(caption) == Upd("photo", "", caption)
Document == Upd("document", "", "")

\* Button labels of menu_keyboard, an emoji written as one ASCII sign.
BTN_SCHEDULE == "# Raspisanie"    \* "📅 Расписание"
BTN_DUTY == "# Dezhurnyy"    \* "🧹 Дежурный"
BTN_HOMEWORK == "# Domashka (dz_list)"    \* "📚 Домашка (dz_list)"
BTN_HELP == "? Help"    \* "❓ Help"
BTN_ADD_CHAT == "+ Dobavit chat"    \* "➕ Добавить чат"
BTN_ADD_ADMIN == "+ Dobavit administratora"    \* "➕ Добавить администратора"
BTN_ADD_STUDENTS == "+ Dobavit uchenikov"    \* "➕ Добавить учеников"
BTN_EDIT_SCHEDULE == "# Izmenit raspisanie"    \* "📝 Изменить расписание"
BTN_TEST == "# Test v chat"    \* "🧪 Тест в чат"
BTN_JOKE_ADD == "# Dobavit anekdot"    \* "😂 Добавить анекдот"

-----------------------------------------------------------------------------
(* Settings and admin policy *)

settings_default == [chat_id |-> None, admins |-> {}]

\* The admins list is read only for emptiness and membership and written as
\* a singleton or as sorted(set(...)): it is modelled as the set of its items.
\* Mutant of is_admin: any user with a username passes.
is_admin_any_handle(s, u) == username_tag(u) # ""

is_admin(s, u) == username_tag(u) \in s.admins

\* The settings after ensure_first_admin_if_empty(update).
\* Mutant of ensure_first_admin_if_empty: the set is not tested for emptiness.
ensure_first_admin_every_time(s, u, c) ==
    IF ~is_private(c) THEN s
    ELSE IF username_tag(u) = "" THEN s
    ELSE [s EXCEPT !.admins = {username_tag(u)}]

\* Mutant of ensure_first_admin_if_empty: the chat is not tested for privacy.
ensure_first_admin_any_chat(s, u, c) ==
    IF s.admins # {} THEN s
    ELSE IF username_tag(u) = "" THEN s
    ELSE [s EXCEPT !.admins = {username_tag(u)}]

ensure_first_admin_if_empty(s, u, c) ==
    IF ~is_private(c) THEN s
    ELSE IF s.admins # {} THEN s
    ELSE IF username_tag(u) = "" THEN s
    ELSE [s EXCEPT !.admins = {username_tag(u)}]

\* parse_chat_id on the texts of the model: strip, then -?\d{4,20}, then int.
parse_chat_id(t) ==
    CASE t = "-1001" -> Some(-1001)
      [] t = " -1001 " -> Some(-1001)
      [] OTHER -> None

\* str.replace(old, new), old not empty.
RECURSIVE Replace(_, _, _)
Replace(t, old, new) ==
    IF Len(t) < Len(old) THEN t
    ELSE IF SubSeq(t, 1, Len(old)) = old
    THEN new \o Replace(SubSeq(t, Len(old) + 1, Len(t)), old, new)
    ELSE SubSeq(t, 1, 1) \o Replace(SubSeq(t, 2, Len(t)), old, new)

\* normalize_text_for_send: the two characters backslash, n become a newline.
normalize_text_for_send(t) == Replace(t, "\\n", "\n")

\* str.strip: leading and trailing spaces and line breaks are dropped.
IsSpace(ch) == ch \in {" ", "\n", "\t"}

RECURSIVE LStrip(_)
LStrip(t) ==
    IF Len(t) > 0 /\ IsSpace(SubSeq(t, 1, 1)) THEN LStrip(SubSeq(t, 2, Len(t))) ELSE t

RECURSIVE RStrip(_)
RStrip(t) ==
    IF Len(t) > 0 /\ IsSpace(SubSeq(t, Len(t), Len(t)))
    THEN RStrip(SubSeq(t, 1, Len(t) - 1)) ELSE t

Strip(t) == RStrip(LStrip(t))

-----------------------------------------------------------------------------
(* Schedule aliases *)

\* "Понедельник", "Вторник", "Среда", "Четверг", "Пятница"
DOW_CANON == <<"Ponedelnik", "Vtornik", "Sreda", "Chetverg", "Pyatnitsa">>

\* str.lower on the letters of the model's strings (A-Z).
UpperCase == "ABCDEFGHIJKLMNOPQRSTUVWXYZ"
LowerCase == "abcdefghijklmnopqrstuvwxyz"

UpperToLower ==
    [ch \in {SubSeq(UpperCase, i, i) : i \in 1..Len(UpperCase)} |->
        LET i == CHOOSE j \in 1..Len(UpperCase) : SubSeq(UpperCase, j, j) = ch
        IN  SubSeq(LowerCase, i, i)]

LowerChar(ch) == IF ch \in DOMAIN UpperToLower THEN UpperToLower[ch] ELSE ch

RECURSIVE Lower(_)
Lower(t) ==
    IF Len(t) = 0 THEN t
    ELSE LowerChar(SubSeq(t, 1, 1)) \o Lower(SubSeq(t, 2, Len(t)))

\* Mutant of alias_mapping: Thursday's "th" mistyped as Tuesday's "tu".
alias_mapping_clash(day_canon) ==
    CASE day_canon = "Ponedelnik" -> <<"pn", "ponedelnk", "mon", "mn">>
      [] day_canon = "Vtornik" -> <<"vt", "tue", "tu">>
      [] day_canon = "Sreda" -> <<"sr", "wed", "we">>
      [] day_canon = "Chetverg" -> <<"cht", "thu", "tu">>
      [] day_canon = "Pyatnitsa" -> <<"pt", "fri", "fr">>
      [] OTHER -> <<>>

\* The mapping table of build_schedule_aliases:
\* "пн", "понедельнк", "mon", "mn" / "вт", "tue", "tu" / "ср", "wed", "we" /
\* "чт", "thu", "th" / "пт", "fri", "fr".
alias_mapping(day_canon) ==
    CASE day_canon = "Ponedelnik" -> <<"pn", "ponedelnk", "mon", "mn">>
      [] day_canon = "Vtornik" -> <<"vt", "tue", "tu">>
      [] day_canon = "Sreda" -> <<"sr", "wed", "we">>
      [] day_canon = "Chetverg" -> <<"cht", "thu", "th">>
      [] day_canon = "Pyatnitsa" -> <<"pt", "fri", "fr">>
      [] OTHER -> <<>>

build_schedule_aliases(day_canon) ==
    <<day_canon, Lower(day_canon)>> \o alias_mapping(day_canon)

normalize_day_query(raw) == Lower(Strip(raw))

\* The inner loop of st_edit_schedule's finalisation: out with value stored
\* under the lower-cased aliases i.. of the list, a later store overwriting.
RECURSIVE StoreAliases(_, _, _, _)
StoreAliases(out, aliases, i, value) ==
    IF i > Len(aliases) THEN out
    ELSE StoreAliases(DictSet(out, Lower(aliases[i]), value), aliases, i + 1, value)

\* The outer loop: the days of buf in insertion order, which is the order of
\* DOW_CANON because st_edit_schedule inserts DOW_CANON[step] for step 0, 1, ...
RECURSIVE ExpandBuf(_, _, _)
ExpandBuf(out, buf, i) ==
    IF i > Len(DOW_CANON) THEN out
    ELSE IF DOW_CANON[i] \in DOMAIN buf
         THEN ExpandBuf(StoreAliases(out, build_schedule_aliases(DOW_CANON[i]), 1,
                                     buf[DOW_CANON[i]]), buf, i + 1)
         ELSE ExpandBuf(out, buf, i + 1)

\* Mutant of schedule_out: the new map is merged into the stored one.
schedule_out_merged(buf) == ExpandBuf(schedule, buf, 1)

\* schedule_out of st_edit_schedule, built from an empty dict.
schedule_out(buf) == ExpandBuf(EmptyDict, buf, 1)

-----------------------------------------------------------------------------
(* Duty roster input *)

\* "end", "все", "стоп"
END_WORDS == {"end", "vse", "stop"}

UsernameChars == UpperCase \o LowerCase \o "0123456789_"

\* re.fullmatch(r"[A-Za-z0-9_]{3,64}", t)
IsUsername(t) ==
    /\ Len(t) >= 3 /\ Len(t) <= 64
    /\ \A i \in 1..Len(t) :
          \E j \in 1..Len(UsernameChars) : SubSeq(UsernameChars, j, j) = SubSeq(t, i, i)

\* normalize_username_input: strip; an END_WORDS member in any case gives
\* the lower-cased word; an optional "@" is dropped and [A-Za-z0-9_]{3,64}
\* must match; the result is "@" + name as typed, None otherwise.
normalize_username_input(t) ==
    LET s1 == Strip(t)
        s2 == IF Len(s1) > 0 /\ SubSeq(s1, 1, 1) = "@" THEN SubSeq(s1, 2, Len(s1)) ELSE s1
        s3 == Strip(s2)
    IN  IF s1 = "" THEN None
        ELSE IF Lower(s1) \in END_WORDS THEN Some(Lower(s1))
        ELSE IF ~IsUsername(s3) THEN None
        ELSE Some("@" \o s3)

\* duty_entry_from_username: "<nick>, @<nick>".
duty_entry_from_username(u) == SubSeq(u, 2, Len(u)) \o ", " \o u

-----------------------------------------------------------------------------
(* Calendar and duty *)

\* Config defaults: school_start = 2024-09-02 (day 0), one holiday period
\* 2024-06-01 .. 2024-08-31 (days -93 .. -2), homework_ttl_days = 14.
SCHOOL_START == 0
HOLIDAY_FIRST == -93
HOLIDAY_LAST == -2
HOMEWORK_TTL_DAYS == 14
Config == [homework_ttl_days |-> HOMEWORK_TTL_DAYS,
           school_start |-> SCHOOL_START,
           holiday_periods |-> <<<<HOLIDAY_FIRST, HOLIDAY_LAST>>>>]

\* date.weekday(): Monday is 0; day 0 is a Monday.
weekday(d) == d % 7

is_weekend(d) == weekday(d) \in {5, 6}

is_holiday(d, c) ==
    \E i \in 1..Len(c.holiday_periods) :
        c.holiday_periods[i][1] <= d /\ d <= c.holiday_periods[i][2]

\* Mutant of cmd_duty_day_counter: the loop counts the weekend days too.
RECURSIVE cmd_duty_day_counter_weekends(_, _, _, _)
cmd_duty_day_counter_weekends(d, t, c, n) ==
    IF d <= t
    THEN cmd_duty_day_counter_weekends(d + 1, t, c,
                                       IF ~is_holiday(d, c) THEN n + 1 ELSE n)
    ELSE n

\* Mutant of cmd_duty_day_counter: the loop stops before today.
RECURSIVE cmd_duty_day_counter_strict(_, _, _, _)
cmd_duty_day_counter_strict(d, t, c, n) ==
    IF d < t
    THEN cmd_duty_day_counter_strict(d + 1, t, c,
                                     IF ~is_weekend(d) /\ ~is_holiday(d, c) THEN n + 1 ELSE n)
    ELSE n

\* The counting loop of cmd_duty: school days from d through t, added to n.
RECURSIVE cmd_duty_day_counter(_, _, _, _)
cmd_duty_day_counter(d, t, c, n) ==
    IF d <= t
    THEN cmd_duty_day_counter(d + 1, t, c,
                              IF ~is_weekend(d) /\ ~is_holiday(d, c) THEN n + 1 ELSE n)
    ELSE n

\* idx of cmd_duty; Python's % has the sign of the divisor, as TLA+'s.
cmd_duty_idx(day_counter, len) == (day_counter - 1) % len

\* cmd_duty for roster dl on day t: the reply, and the day counter and index
\* when they are computed.  The replies:
\*   "Список дежурных пуст." / "Учебный год ещё не начался." /
\*   "Сегодня дежурных нет! Отдыхайте 😎" / "Сегодня дежурный: <entry>"
cmd_duty(dl, t, c) ==
    IF dl = <<>> THEN [reply |-> <<"roster_empty">>, calc |-> <<>>]
    ELSE IF t < c.school_start THEN [reply |-> <<"year_not_started">>, calc |-> <<>>]
    ELSE IF is_weekend(t) \/ is_holiday(t, c)
    THEN [reply |-> <<"no_duty_today">>, calc |-> <<>>]
    ELSE LET day_counter == cmd_duty_day_counter(c.school_start, t, c, 0)
             idx == cmd_duty_idx(day_counter, Len(dl))
         IN  [reply |-> <<"duty_today", dl[idx + 1]>>, calc |-> <<day_counter, idx>>]

\* The same loop and index in duty_reminder_job.
RECURSIVE job_day_counter(_, _, _, _)
job_day_counter(d, t, c, n) ==
    IF d <= t
    THEN job_day_counter(d + 1, t, c,
                         IF ~is_weekend(d) /\ ~is_holiday(d, c) THEN n + 1 ELSE n)
    ELSE n

\* Mutant of job_idx: the index is not shifted to start at 0.
job_idx_unshifted(day_counter, len) == day_counter % len

job_idx(day_counter, len) == (day_counter - 1) % len

\* duty_reminder_job: the messages sent to the broadcast chat (none without a
\* truthy chat_id, else one of the four texts of cmd_duty), and the day counter
\* and index when they are computed.
duty_reminder_job(s, dl, t, c) ==
    IF ~Truthy(s.chat_id) THEN [sent |-> <<>>, calc |-> <<>>]
    ELSE IF dl = <<>> THEN [sent |-> << <<"roster_empty">> >>, calc |-> <<>>]
    ELSE IF t < c.school_start THEN [sent |-> << <<"year_not_started">> >>, calc |-> <<>>]
    ELSE IF is_weekend(t) \/ is_holiday(t, c)
    THEN [sent |-> << <<"no_duty_today">> >>, calc |-> <<>>]
    ELSE LET day_counter == job_day_counter(c.school_start, t, c, 0)
             idx == job_idx(day_counter, Len(dl))
         IN  [sent |-> << <<"duty_today", dl[idx + 1]>> >>, calc |-> <<day_counter, idx>>]

-----------------------------------------------------------------------------
(* Homework: dates, keys and the expiry sweep.  The runs stay inside 2024, *)
(* the year of day 0, so today.year is 2024 (a leap year)                  *)

\* Days of 2024 before each month, and in each month.
DaysBefore == <<0, 31, 60, 91, 121, 152, 182, 213, 244, 274, 305, 335>>
DaysIn == <<31, 29, 31, 30, 31, 30, 31, 31, 30, 31, 30, 31>>

\* date(today.year, mm, dd): the date exists, and its day number
\* (2024-09-02, the 246th day of the year, is day 0).
date_valid(mm, dd) == mm \in 1..12 /\ dd >= 1 /\ dd <= DaysIn[mm]
date(mm, dd) == DaysBefore[mm] + dd - (DaysBefore[9] + 2)

\* Month and day of the month of a day number.
month_of(d) ==
    CHOOSE mm \in 1..12 :
        date(mm, 1) <= d /\ d <= date(mm, DaysIn[mm])
day_of(d) == d - date(month_of(d), 1) + 1

\* "%02d"
Two(n) == IF n < 10 THEN "0" \o ToString(n) ELSE ToString(n)

\* str(d) and d.isoformat(): "2024-MM-DD"
isoformat(d) == "2024-" \o Two(month_of(d)) \o "-" \o Two(day_of(d))

\* d.strftime("%d.%m.%Y") and d.strftime("%d.%m")
strftime_dmy(d) == Two(day_of(d)) \o "." \o Two(month_of(d)) \o ".2024"
strftime_dm(d) == Two(day_of(d)) \o "." \o Two(month_of(d))

\* The value of a string of decimal digits, None for any other string
\* (str.isdigit and int).
DigitValue(ch) ==
    CASE ch = "0" -> 0 [] ch = "1" -> 1 [] ch = "2" -> 2 [] ch = "3" -> 3
      [] ch = "4" -> 4 [] ch = "5" -> 5 [] ch = "6" -> 6 [] ch = "7" -> 7
      [] ch = "8" -> 8 [] ch = "9" -> 9 [] OTHER -> -1

RECURSIVE DigitsValue(_, _)
DigitsValue(t, acc) ==
    IF Len(t) = 0 THEN acc
    ELSE IF DigitValue(SubSeq(t, 1, 1)) < 0 THEN -1
    ELSE DigitsValue(SubSeq(t, 2, Len(t)), 10 * acc + DigitValue(SubSeq(t, 1, 1)))

int_of(t) == IF Len(t) = 0 \/ DigitsValue(t, 0) < 0 THEN None ELSE Some(DigitsValue(t, 0))

\* date.fromisoformat(k) for the format YYYY-MM-DD: the day number, None when
\* it raises ValueError.  The keys of the model are dates of 2024 or no dates.
fromisoformat(k) ==
    IF Len(k) # 10 \/ SubSeq(k, 5, 5) # "-" \/ SubSeq(k, 8, 8) # "-" THEN None
    ELSE LET y == int_of(SubSeq(k, 1, 4))
             mm == int_of(SubSeq(k, 6, 7))
             dd == int_of(SubSeq(k, 9, 10))
         IN  IF y = None \/ mm = None \/ dd = None THEN None
             ELSE IF y[1] # 2024 \/ ~date_valid(mm[1], dd[1]) THEN None
             ELSE Some(date(mm[1], dd[1]))

expiry_of_homework(d, c) == d + c.homework_ttl_days

\* Mutant of cleanup_homework_in_memory: an entry is dropped on its expiry day.
cleanup_homework_off_by_one(hw, c, t) ==
    LET expired == {k \in DOMAIN hw :
                       /\ fromisoformat(k) # None
                       /\ t >= expiry_of_homework(fromisoformat(k)[1], c)}
    IN  [cleaned |-> [k \in (DOMAIN hw) \ expired |-> hw[k]],
         removed |-> Cardinality(expired)]

\* Mutant of cleanup_homework_in_memory: the loop stops at the first entry it
\* drops.
cleanup_homework_first_only(hw, c, t) ==
    LET expired == {k \in DOMAIN hw :
                       /\ fromisoformat(k) # None
                       /\ t > expiry_of_homework(fromisoformat(k)[1], c)}
        first == IF expired = {} THEN {} ELSE {CHOOSE k \in expired : TRUE}
    IN  [cleaned |-> [k \in (DOMAIN hw) \ first |-> hw[k]],
         removed |-> Cardinality(first)]

\* cleanup_homework_in_memory with datetime.now().date() = t: the cleaned
\* map and the number of entries removed.
cleanup_homework_in_memory(hw, c, t) ==
    LET expired == {k \in DOMAIN hw :
                       /\ fromisoformat(k) # None
                       /\ t > expiry_of_homework(fromisoformat(k)[1], c)}
    IN  [cleaned |-> [k \in (DOMAIN hw) \ expired |-> hw[k]],
         removed |-> Cardinality(expired)]

\* load_homework_clean: the map it returns and the map homework.json holds
\* afterwards (saved only when something was removed).
load_homework_clean(hw, c, t) ==
    LET r == cleanup_homework_in_memory(hw, c, t)
    IN  [hw |-> r.cleaned, stored |-> IF r.removed # 0 THEN r.cleaned ELSE hw]

-----------------------------------------------------------------------------
(* Homework: the date argument of the commands and /dz *)

\* "пн", "вт", "ср", "чт", "пт", "сб", "вс"
DOW_SHORT == <<"pn", "vt", "sr", "cht", "pt", "sb", "vs">>
\* "понедельник", ..., "воскресенье"
DOW_FULL == <<"ponedelnik", "vtornik", "sreda", "chetverg", "pyatnitsa",
              "subbota", "voskresene">>

\* RU_MONTHS: "январь" .. "декабрь" and "января" .. "декабря"
RU_MONTHS ==
    [w \in {"yanvar", "fevral", "mart", "aprel", "may", "iyun", "iyul", "avgust",
            "sentyabr", "oktyabr", "noyabr", "dekabr",
            "yanvarya", "fevralya", "marta", "aprelya", "maya", "iyunya", "iyulya",
            "avgusta", "sentyabrya", "oktyabrya", "noyabrya", "dekabrya"} |->
        CASE w \in {"yanvar", "yanvarya"} -> 1
          [] w \in {"fevral", "fevralya"} -> 2
          [] w \in {"mart", "marta"} -> 3
          [] w \in {"aprel", "aprelya"} -> 4
          [] w \in {"may", "maya"} -> 5
          [] w \in {"iyun", "iyunya"} -> 6
          [] w \in {"iyul", "iyulya"} -> 7
          [] w \in {"avgust", "avgusta"} -> 8
          [] w \in {"sentyabr", "sentyabrya"} -> 9
          [] w \in {"oktyabr", "oktyabrya"} -> 10
          [] w \in {"noyabr", "noyabrya"} -> 11
          [] OTHER -> 12]

\* list.index of an item the list holds, from 0.
IndexOf(list, x) == (CHOOSE i \in 1..Len(list) : list[i] = x) - 1
InList(list, x) == \E i \in 1..Len(list) : list[i] = x

\* _parse_numeric_date_token: (\d{1,2})[.\-/](\d{1,2}) as <<dd, mm>>, else None.
parse_numeric_date_token(token) ==
    LET t == Strip(token)
        fits(i) == /\ i + 1 <= Len(t) /\ Len(t) <= i + 2
                   /\ SubSeq(t, i, i) \in {".", "-", "/"}
                   /\ int_of(SubSeq(t, 1, i - 1)) # None
                   /\ int_of(SubSeq(t, i + 1, Len(t))) # None
    IN  IF \E i \in {2, 3} : fits(i)
        THEN LET i == CHOOSE j \in {2, 3} : fits(j)
             IN  Some(<<int_of(SubSeq(t, 1, i - 1))[1], int_of(SubSeq(t, i + 1, Len(t)))[1]>>)
        ELSE None

\* Mutant of next_weekday: a delta of 0 is kept.
next_weekday_or_today(from_date, target_weekday) ==
    from_date + ((target_weekday - weekday(from_date) + 7) % 7)

next_weekday(from_date, target_weekday) ==
    LET delta == (target_weekday - weekday(from_date) + 7) % 7
    IN  from_date + (IF delta = 0 THEN 7 ELSE delta)

\* What parse_date_and_consumed does with date(today.year, mm, dd).
MakeDate(mm, dd, consumed) ==
    IF date_valid(mm, dd) THEN [raised |-> "", parsed |-> Some(<<date(mm, dd), consumed>>)]
    ELSE [raised |-> "ValueError", parsed |-> None]

\* parse_date_and_consumed(args) with datetime.now().date() = t: parsed is
\* None or <<date, consumed>>; raised names the exception date() raises for a
\* day and month that are no date.
parse_date_and_consumed(args, t) ==
    LET Result(p) == [raised |-> "", parsed |-> p]
    IN  IF args = <<>> THEN Result(None)
        ELSE LET a0 == Lower(Strip(args[1]))
                 nm == parse_numeric_date_token(a0)
             IN  IF a0 = "zavtra" THEN Result(Some(<<t + 1, 1>>))
                 ELSE IF InList(DOW_SHORT, a0)
                 THEN Result(Some(<<next_weekday(t, IndexOf(DOW_SHORT, a0)), 1>>))
                 ELSE IF InList(DOW_FULL, a0)
                 THEN Result(Some(<<next_weekday(t, IndexOf(DOW_FULL, a0)), 1>>))
                 ELSE IF nm # None THEN MakeDate(nm[1][2], nm[1][1], 1)
                 ELSE IF Len(args) >= 2 /\ int_of(args[1]) # None /\ int_of(args[2]) # None
                 THEN MakeDate(int_of(args[2])[1], int_of(args[1])[1], 2)
                 ELSE IF /\ Len(args) >= 2 /\ int_of(args[1]) # None
                         /\ Lower(Strip(args[2])) \in DOMAIN RU_MONTHS
                 THEN MakeDate(RU_MONTHS[Lower(Strip(args[2]))], int_of(args[1])[1], 2)
                 ELSE Result(None)

\* " ".join(args[i:])
RECURSIVE Join(_, _)
Join(args, i) ==
    IF i > Len(args) THEN ""
    ELSE IF i = Len(args) THEN args[i]
    ELSE args[i] \o " " \o Join(args, i + 1)

\* Mutant of formatted: only the semicolons get a line break.
formatted_semicolons_only(task) == Replace(task, ";", ";\n")

\* The task as /dz shows it: task.replace(": ", ":\n").replace(";", ";\n")
formatted(task) == Replace(Replace(task, ": ", ":\n"), ";", ";\n")

\* cmd_homework on homework.json = hw: the map the file holds afterwards, the
\* reply and the exception that ends the handler.  Replies:
\*   "Формат: /dz 25.01 | ..." / "Не понял дату. ..." /
\*   "Сохранил на <date> ✅ ... Удалится после <exp>" /
\*   "Домашка на <date>: <formatted> ... Удалится после <exp>" /
\*   "На <date> домашки нет. Добавить: /dz <dd.mm> <текст> ... <exp>"
cmd_homework(hw_file, args, c, t) ==
    Once({
    LET hw == loaded.hw
        R(stored, reply, raised) ==
            [homework |-> stored, reply |-> reply, raised |-> raised,
             parsed |-> IF args = <<>> \/ p.parsed = None THEN <<>> ELSE p.parsed[1]]
    IN  IF args = <<>> THEN R(loaded.stored, <<"hw_format">>, "")
        ELSE IF p.raised # "" THEN R(loaded.stored, <<>>, p.raised)
        ELSE IF p.parsed = None THEN R(loaded.stored, <<"hw_bad_date">>, "")
        ELSE LET target == p.parsed[1][1]
                 consumed == p.parsed[1][2]
                 exp == strftime_dmy(expiry_of_homework(target, c))
             IN  IF Len(args) > consumed
                 THEN R(DictSet(hw, isoformat(target), Strip(Join(args, consumed + 1))),
                        <<"hw_saved", strftime_dmy(target), exp>>, "")
                 ELSE IF DictGet(hw, isoformat(target), "") # ""
                 THEN R(loaded.stored,
                        <<"hw_show", strftime_dmy(target), formatted(hw[isoformat(target)]), exp>>,
                        "")
                 ELSE R(loaded.stored,
                        <<"hw_none", strftime_dmy(target), strftime_dm(target), exp>>, "")
    : loaded \in {load_homework_clean(hw_file, c, t)},
      p \in {parse_date_and_consumed(args, t)}})

-----------------------------------------------------------------------------
(* Dispatch: Application.process_update over the handlers of group 0 in the *)
(* order of build_app, each ConversationHandler by its check_update         *)

\* filters.TEXT (a message with text, commands included), filters.COMMAND,
\* filters.PHOTO, and CommandHandler(name).
FilterTEXT(m) == m.kind \in {"text", "command"}
FilterCOMMAND(m) == m.kind = "command"
FilterPHOTO(m) == m.kind = "photo"
IsCommand(m, name) == m.kind = "command" /\ m.name = name

NoHandler == ""

\* The states map of menu_conv: every state takes TEXT & ~COMMAND.
menu_conv_states(state, m) ==
    IF FilterTEXT(m) /\ ~FilterCOMMAND(m)
    THEN CASE state = ST_MENU -> "menu_router"
           [] state = ST_SET_CHAT -> "st_set_chat"
           [] state = ST_ADD_ADMIN -> "st_add_admin"
           [] state = ST_ADD_STUDENTS -> "st_add_students"
           [] state = ST_EDIT_SCHEDULE -> "st_edit_schedule"
           [] state = ST_JOKE_ADD -> "st_joke_add_text"
           [] OTHER -> NoHandler
    ELSE NoHandler

\* The handler menu_conv picks for update m in a conversation in `state`
\* (allow_reentry is False: entry points are tried only without a conversation;
\* with one, the state's handlers and then the fallbacks).
menu_conv_check(state, m) ==
    IF state = END
    THEN IF IsCommand(m, "start") THEN "cmd_start"
         ELSE IF IsCommand(m, "menu") THEN "cmd_menu"
         ELSE NoHandler
    ELSE IF menu_conv_states(state, m) # NoHandler THEN menu_conv_states(state, m)
         ELSE IF IsCommand(m, "cancel") THEN "cmd_cancel"
         ELSE NoHandler

\* The states map of si_conv.
si_conv_states(state, m) ==
    CASE state = SI_CHAT ->
           IF FilterTEXT(m) /\ ~FilterCOMMAND(m) THEN "st_si_chat" ELSE NoHandler
      [] state = SI_PHOTO ->
           IF FilterPHOTO(m) THEN "st_si_photo" ELSE "st_si_photo_wrong"
      [] state = SI_TEXT ->
           IF FilterTEXT(m) /\ ~FilterCOMMAND(m) THEN "st_si_text"
           ELSE IF ~FilterTEXT(m) THEN "st_si_text_wrong"
           ELSE NoHandler
      [] OTHER -> NoHandler

si_conv_check(state, m) ==
    IF state = END
    THEN IF IsCommand(m, "si") THEN "cmd_si" ELSE NoHandler
    ELSE IF si_conv_states(state, m) # NoHandler THEN si_conv_states(state, m)
         ELSE IF IsCommand(m, "cancel") THEN "cmd_cancel"
         ELSE NoHandler

\* The CommandHandlers added after the two conversations.
plain_commands(m) ==
    IF m.kind # "command" THEN NoHandler
    ELSE CASE m.name = "help" -> "cmd_help"
           [] m.name = "r" -> "cmd_schedule"
           [] m.name = "d" -> "cmd_duty"
           [] m.name = "dz" -> "cmd_homework"
           [] m.name = "dz_list" -> "cmd_homework_list"
           [] m.name = "dz_edit" -> "cmd_homework_edit"
           [] m.name = "dz_del" -> "cmd_homework_del"
           [] m.name = "joke" -> "cmd_joke"
           [] m.name = "joke_add" -> "cmd_joke_add"
           [] m.name = "s" -> "cmd_send_to_chat"
           [] m.name = "test" -> "cmd_test"
           [] m.name = "d_set" -> "cmd_d_set"
           [] OTHER -> NoHandler

\* The first handler of build_app's order that accepts the update: [conv, fn].
build_app(mstate, sstate, m) ==
    IF menu_conv_check(mstate, m) # NoHandler
    THEN [conv |-> "menu_conv", fn |-> menu_conv_check(mstate, m)]
    ELSE IF si_conv_check(sstate, m) # NoHandler
    THEN [conv |-> "si_conv", fn |-> si_conv_check(sstate, m)]
    ELSE IF plain_commands(m) # NoHandler
    THEN [conv |-> "app", fn |-> plain_commands(m)]
    ELSE [conv |-> "none", fn |-> NoHandler]

Dispatch(u, c, m) == build_app(menu_conv[<<c, u>>], si_conv[<<c, u>>], m)

-----------------------------------------------------------------------------
(* Steps.  Every action below is one handler run on one update: its guard  *)
(* is the dispatch, its body the handler, and ConversationHandler stores   *)
(* the returned state under the key of the conversation that ran it.       *)

\* ConversationHandler._update_state: the new state is stored as returned,
\* known to the conversation or not; END removes the key.
UpdateState(conv, k, new_state) ==
    /\ menu_conv' = IF conv = "menu_conv" THEN [menu_conv EXCEPT ![k] = new_state]
                    ELSE menu_conv
    /\ si_conv' = IF conv = "si_conv" THEN [si_conv EXCEPT ![k] = new_state]
                  ELSE si_conv

\* What the step did: the update, the handler, the states before it, the replies
\* to the user, the messages sent to the broadcast chat, the exception raised,
\* and the sends tried with their parse mode and what the transport did.
Done(u, c, m, h, reply, sent, raised) ==
    [user |-> u, chat |-> c, upd |-> m, conv |-> h.conv, fn |-> h.fn,
     from_menu |-> menu_conv[<<c, u>>], from_si |-> si_conv[<<c, u>>],
     reply |-> reply, sent |-> sent, raised |-> raised, calc |-> <<>>,
     attempts |-> <<>>]

NoStep == [user |-> "", chat |-> "", upd |-> Upd("", "", ""), conv |-> "", fn |-> "",
           from_menu |-> END, from_si |-> END,
           reply |-> <<>>, sent |-> <<>>, raised |-> "", calc |-> <<>>,
           attempts |-> <<>>]

\* cmd_start: "Привет! ..." with the menu keyboard.
CmdStart(u, c, m) ==
    LET h == Dispatch(u, c, m) IN
    /\ h.fn = "cmd_start"
    /\ settings' = IF is_private(c) THEN ensure_first_admin_if_empty(settings, u, c)
                   ELSE settings
    /\ UpdateState(h.conv, <<c, u>>, ST_MENU)
    /\ last' = Done(u, c, m, h, <<"greeting">>, <<>>, "")
    /\ UNCHANGED <<schedule, duty_list, jokes, homework, tmp_uploads, user_data, today, cfg, edit_log,
                   coros>>

\* cmd_menu: "Меню открыто 👇".
CmdMenu(u, c, m) ==
    LET h == Dispatch(u, c, m) IN
    /\ h.fn = "cmd_menu"
    /\ settings' = IF is_private(c) THEN ensure_first_admin_if_empty(settings, u, c)
                   ELSE settings
    /\ UpdateState(h.conv, <<c, u>>, ST_MENU)
    /\ last' = Done(u, c, m, h, <<"menu_opened">>, <<>>, "")
    /\ UNCHANGED <<schedule, duty_list, jokes, homework, tmp_uploads, user_data, today, cfg, edit_log,
                   coros>>

\* The state cmd_cancel returns.
cmd_cancel_return == ST_MENU

\* cmd_cancel, the fallback of both conversations: "Отменено ✅".
CmdCancel(u, c, m) ==
    LET h == Dispatch(u, c, m) IN
    /\ h.fn = "cmd_cancel"
    /\ UpdateState(h.conv, <<c, u>>, cmd_cancel_return)
    /\ last' = Done(u, c, m, h, <<"cancelled">>, <<>>, "")
    /\ UNCHANGED <<settings, schedule, duty_list, jokes, homework, tmp_uploads, user_data,
                   today, cfg, edit_log, coros>>

\* cmd_test after its admin check: the reply and the messages to the chat.
\* "Сначала укажи чат ..." / "Тестовое сообщение ✅" and "Ок ✅".
cmd_test_body(s) ==
    IF ~Truthy(s.chat_id)
    THEN [reply |-> <<"set_chat_first">>, sent |-> <<>>]
    ELSE [reply |-> <<"test_ok">>, sent |-> << <<"text", "test_message", "plain">> >>]

\* Mutant of menu_router: entering the schedule dialog empties schedule_buf
\* and keeps a schedule_step left by an earlier dialog.
menu_router_keeps_step(u, c, m) ==
    LET text == Strip(m.text)
        s == ensure_first_admin_if_empty(settings, u, c)
        ud == user_data[u]
        R(state, st, d, reply, sent) ==
            [state |-> state, settings |-> st, user_data |-> d,
             reply |-> reply, sent |-> sent]
    IN  IF text = BTN_SCHEDULE THEN R(ST_MENU, settings, ud, <<"hint_schedule">>, <<>>)
        ELSE IF text = BTN_DUTY
        THEN R(ST_MENU, settings, ud, cmd_duty(duty_list, today, cfg).reply, <<>>)
        ELSE IF text = BTN_HOMEWORK THEN R(ST_MENU, settings, ud, <<"hint_homework">>, <<>>)
        ELSE IF text = BTN_HELP THEN R(ST_MENU, settings, ud, <<"help">>, <<>>)
        ELSE IF ~is_admin(s, u) THEN R(ST_MENU, s, ud, <<"ok_generic">>, <<>>)
        ELSE IF text = BTN_ADD_CHAT THEN R(ST_SET_CHAT, s, ud, <<"ask_chat_id">>, <<>>)
        ELSE IF text = BTN_ADD_ADMIN THEN R(ST_ADD_ADMIN, s, ud, <<"ask_admin">>, <<>>)
        ELSE IF text = BTN_ADD_STUDENTS
        THEN R(ST_ADD_STUDENTS, s, DictSet(ud, "students_added", 0),
               <<"ask_students">>, <<>>)
        ELSE IF text = BTN_EDIT_SCHEDULE
        THEN R(ST_EDIT_SCHEDULE, s,
               DictSet(DictSet(ud, "schedule_step", DictGet(ud, "schedule_step", 0)),
                       "schedule_buf", EmptyDict),
               <<"ask_day", DOW_CANON[1]>>, <<>>)
        ELSE IF text = BTN_TEST
        THEN R(ST_MENU, s, ud, cmd_test_body(s).reply, cmd_test_body(s).sent)
        ELSE IF text = BTN_JOKE_ADD THEN R(ST_JOKE_ADD, s, ud, <<"ask_joke">>, <<>>)
        ELSE R(ST_MENU, s, ud, <<"not_understood">>, <<>>)

\* menu_router: [state, settings, user_data of the user, reply, sent].
menu_router(u, c, m) ==
    LET text == Strip(m.text)
        s == ensure_first_admin_if_empty(settings, u, c)
        ud == user_data[u]
        R(state, st, d, reply, sent) ==
            [state |-> state, settings |-> st, user_data |-> d,
             reply |-> reply, sent |-> sent]
    IN  IF text = BTN_SCHEDULE THEN R(ST_MENU, settings, ud, <<"hint_schedule">>, <<>>)
        ELSE IF text = BTN_DUTY
        THEN R(ST_MENU, settings, ud, cmd_duty(duty_list, today, cfg).reply, <<>>)
        ELSE IF text = BTN_HOMEWORK THEN R(ST_MENU, settings, ud, <<"hint_homework">>, <<>>)
        ELSE IF text = BTN_HELP THEN R(ST_MENU, settings, ud, <<"help">>, <<>>)
        ELSE IF ~is_admin(s, u) THEN R(ST_MENU, s, ud, <<"ok_generic">>, <<>>)
        ELSE IF text = BTN_ADD_CHAT THEN R(ST_SET_CHAT, s, ud, <<"ask_chat_id">>, <<>>)
        ELSE IF text = BTN_ADD_ADMIN THEN R(ST_ADD_ADMIN, s, ud, <<"ask_admin">>, <<>>)
        ELSE IF text = BTN_ADD_STUDENTS
        THEN R(ST_ADD_STUDENTS, s, DictSet(ud, "students_added", 0),
               <<"ask_students">>, <<>>)
        ELSE IF text = BTN_EDIT_SCHEDULE
        THEN R(ST_EDIT_SCHEDULE, s,
               DictSet(DictSet(ud, "schedule_step", 0), "schedule_buf", EmptyDict),
               <<"ask_day", DOW_CANON[1]>>, <<>>)
        ELSE IF text = BTN_TEST
        THEN R(ST_MENU, s, ud, cmd_test_body(s).reply, cmd_test_body(s).sent)
        ELSE IF text = BTN_JOKE_ADD THEN R(ST_JOKE_ADD, s, ud, <<"ask_joke">>, <<>>)
        ELSE R(ST_MENU, s, ud, <<"not_understood">>, <<>>)

MenuRouter(u, c, m) ==
    LET h == Dispatch(u, c, m)
        r == menu_router(u, c, m)
    IN  /\ h.fn = "menu_router"
        /\ settings' = r.settings
        /\ user_data' = [user_data EXCEPT ![u] = r.user_data]
        /\ UpdateState(h.conv, <<c, u>>, r.state)
        /\ last' = Done(u, c, m, h, r.reply, r.sent, "")
        /\ edit_log' = IF r.state = ST_EDIT_SCHEDULE
                       THEN [edit_log EXCEPT ![<<c, u>>] =
                                [@ EXCEPT !.before = schedule, !.texts = <<>>]]
                       ELSE IF r.state = ST_ADD_STUDENTS
                       THEN [edit_log EXCEPT ![<<c, u>>].appended = 0]
                       ELSE edit_log
        /\ UNCHANGED <<schedule, duty_list, jokes, homework, tmp_uploads, today, cfg, coros>>

\* st_set_chat: "Не похоже на chat_id ..." / "Сохранено ✅ chat_id = ...".
StSetChat(u, c, m) ==
    LET h == Dispatch(u, c, m)
        cid == parse_chat_id(m.text)
    IN  /\ h.fn = "st_set_chat"
        /\ IF cid = None
           THEN /\ UpdateState(h.conv, <<c, u>>, ST_SET_CHAT)
                /\ last' = Done(u, c, m, h, <<"not_a_chat_id">>, <<>>, "")
                /\ UNCHANGED settings
           ELSE /\ settings' = [settings EXCEPT !.chat_id = cid]
                /\ UpdateState(h.conv, <<c, u>>, ST_MENU)
                /\ last' = Done(u, c, m, h, <<"chat_saved">>, <<>>, "")
        /\ UNCHANGED <<schedule, duty_list, jokes, homework, tmp_uploads, user_data, today, cfg, edit_log,
                       coros>>

\* st_add_admin: "Нужно @username ..." / "Админ добавлен ✅ ...".
StAddAdmin(u, c, m) ==
    LET h == Dispatch(u, c, m)
        n == normalize_username_input(m.text)
    IN  /\ h.fn = "st_add_admin"
        /\ IF n = None \/ n[1] \in END_WORDS
           THEN /\ UpdateState(h.conv, <<c, u>>, ST_ADD_ADMIN)
                /\ last' = Done(u, c, m, h, <<"need_username">>, <<>>, "")
                /\ UNCHANGED settings
           ELSE /\ settings' = [settings EXCEPT !.admins = @ \cup {n[1]}]
                /\ UpdateState(h.conv, <<c, u>>, ST_MENU)
                /\ last' = Done(u, c, m, h, <<"admin_added", n[1]>>, <<>>, "")
        /\ UNCHANGED <<schedule, duty_list, jokes, homework, tmp_uploads, user_data, today, cfg, edit_log,
                       coros>>

\* The "Добавлено: N" total of st_add_students, as a reply argument.
Count(n) ==
    CASE n = 0 -> "0" [] n = 1 -> "1" [] n = 2 -> "2" [] n = 3 -> "3" [] OTHER -> "many"

\* st_add_students: "Не понял ..." / "Готово ✅ Добавлено: N" /
\* "Добавил: <entry> ...".
StAddStudents(u, c, m) ==
    LET h == Dispatch(u, c, m)
        n == normalize_username_input(Strip(m.text))
        ud == user_data[u]
        added == DictGet(ud, "students_added", 0)
    IN  /\ h.fn = "st_add_students"
        /\ IF n = None
           THEN /\ UpdateState(h.conv, <<c, u>>, ST_ADD_STUDENTS)
                /\ last' = Done(u, c, m, h, <<"not_understood_student">>, <<>>, "")
                /\ UNCHANGED <<duty_list, user_data, edit_log>>
           ELSE IF n[1] \in END_WORDS
           THEN /\ UpdateState(h.conv, <<c, u>>, ST_MENU)
                /\ last' = Done(u, c, m, h, <<"students_done", Count(added)>>, <<>>, "")
                /\ UNCHANGED <<duty_list, user_data, edit_log>>
           ELSE /\ Len(duty_list) < MaxDuty
                /\ edit_log' = [edit_log EXCEPT ![<<c, u>>].appended = @ + 1]
                /\ duty_list' = Append(duty_list, duty_entry_from_username(n[1]))
                /\ user_data' = [user_data EXCEPT ![u] =
                                    DictSet(ud, "students_added", added + 1)]
                /\ UpdateState(h.conv, <<c, u>>, ST_ADD_STUDENTS)
                /\ last' = Done(u, c, m, h,
                                <<"student_added", duty_entry_from_username(n[1])>>,
                                <<>>, "")
        /\ UNCHANGED <<settings, schedule, jokes, homework, tmp_uploads, today, cfg, coros>>

\* The texts a conversation's dialog takes are capped at MaxTexts to keep the
\* state space finite (a dialog in another chat can reset the shared step).
\* st_edit_schedule: "Теперь введи расписание на <day>:" / "Расписание сохранено ✅";
\* no reply when the step is past the last day.
StEditSchedule(u, c, m) ==
    LET h == Dispatch(u, c, m)
        ud == user_data[u]
        step == DictGet(ud, "schedule_step", 0)
        buf == DictGet(ud, "schedule_buf", EmptyDict)
        buf2 == IF step < Len(DOW_CANON)
                THEN DictSet(buf, DOW_CANON[step + 1], Strip(m.text)) ELSE buf
        ud2 == DictSet(DictSet(ud, "schedule_step", step + 1), "schedule_buf", buf2)
    IN  /\ h.fn = "st_edit_schedule"
        /\ IF step >= Len(DOW_CANON)
           THEN /\ UpdateState(h.conv, <<c, u>>, ST_MENU)
                /\ last' = Done(u, c, m, h, <<>>, <<>>, "")
                /\ UNCHANGED <<schedule, user_data, edit_log>>
           ELSE IF step + 1 < Len(DOW_CANON)
           THEN /\ Len(edit_log[<<c, u>>].texts) < MaxTexts
                /\ user_data' = [user_data EXCEPT ![u] = ud2]
                /\ UpdateState(h.conv, <<c, u>>, ST_EDIT_SCHEDULE)
                /\ last' = Done(u, c, m, h, <<"ask_day", DOW_CANON[step + 2]>>, <<>>, "")
                /\ edit_log' = [edit_log EXCEPT ![<<c, u>>].texts =
                                    Append(@, m.text)]
                /\ UNCHANGED schedule
           ELSE /\ Len(edit_log[<<c, u>>].texts) < MaxTexts
                /\ user_data' = [user_data EXCEPT ![u] = ud2]
                /\ schedule' = schedule_out(buf2)
                /\ UpdateState(h.conv, <<c, u>>, ST_MENU)
                /\ last' = Done(u, c, m, h, <<"schedule_saved">>, <<>>, "")
                /\ edit_log' = [edit_log EXCEPT ![<<c, u>>] =
                                    [@ EXCEPT !.texts = Append(@, m.text),
                                              !.saved = TRUE]]
        /\ UNCHANGED <<settings, duty_list, jokes, homework, tmp_uploads, today, cfg, coros>>

\* st_joke_add_text: "Добавил ✅".
StJokeAddText(u, c, m) ==
    LET h == Dispatch(u, c, m) IN
    /\ h.fn = "st_joke_add_text"
    /\ Len(jokes) < MaxJokes
    /\ jokes' = Append(jokes, Strip(m.text))
    /\ UpdateState(h.conv, <<c, u>>, ST_MENU)
    /\ last' = Done(u, c, m, h, <<"joke_added">>, <<>>, "")
    /\ UNCHANGED <<settings, schedule, duty_list, homework, tmp_uploads, user_data, today, cfg, edit_log,
                   coros>>

-----------------------------------------------------------------------------
(* The photo broadcast, /si *)

\* cmd_si: no reply to a non-admin; "Команда /si работает в ЛС ...";
\* "Ок. Основной чат уже задан ..." / "Сначала пришли chat_id ...".
CmdSi(u, c, m) ==
    LET h == Dispatch(u, c, m)
        s == ensure_first_admin_if_empty(settings, u, c)
    IN  /\ h.fn = "cmd_si"
        /\ settings' = s
        /\ IF ~is_admin(s, u)
           THEN /\ UpdateState(h.conv, <<c, u>>, END)
                /\ last' = Done(u, c, m, h, <<>>, <<>>, "")
                /\ UNCHANGED user_data
           ELSE IF ~is_private(c)
           THEN /\ UpdateState(h.conv, <<c, u>>, END)
                /\ last' = Done(u, c, m, h, <<"si_private_only">>, <<>>, "")
                /\ UNCHANGED user_data
           ELSE IF Truthy(s.chat_id)
           THEN /\ user_data' = [user_data EXCEPT ![u] =
                                    DictSet(@, "si_chat_id", s.chat_id[1])]
                /\ UpdateState(h.conv, <<c, u>>, SI_PHOTO)
                /\ last' = Done(u, c, m, h, <<"si_send_photo">>, <<>>, "")
           ELSE /\ UpdateState(h.conv, <<c, u>>, SI_CHAT)
                /\ last' = Done(u, c, m, h, <<"si_send_chat_id">>, <<>>, "")
                /\ UNCHANGED user_data
        /\ UNCHANGED <<schedule, duty_list, jokes, homework, tmp_uploads, today, cfg, edit_log,
                       coros>>

\* st_si_chat: "Не похоже на chat_id ..." / "Ок. Теперь пришли одно фото.".
StSiChat(u, c, m) ==
    LET h == Dispatch(u, c, m)
        cid == parse_chat_id(m.text)
    IN  /\ h.fn = "st_si_chat"
        /\ IF cid = None
           THEN /\ UpdateState(h.conv, <<c, u>>, SI_CHAT)
                /\ last' = Done(u, c, m, h, <<"not_a_chat_id">>, <<>>, "")
                /\ UNCHANGED user_data
           ELSE /\ user_data' = [user_data EXCEPT ![u] = DictSet(@, "si_chat_id", cid[1])]
                /\ UpdateState(h.conv, <<c, u>>, SI_PHOTO)
                /\ last' = Done(u, c, m, h, <<"si_send_photo">>, <<>>, "")
        /\ UNCHANGED <<settings, schedule, duty_list, jokes, homework, tmp_uploads, today, cfg, edit_log,
                       coros>>

\* TMP_UPLOADS / f"si_{user id}_{timestamp in seconds}.jpg": the clock gives
\* one of two names per user.
TmpPaths(u) == {<<u, "t1">>, <<u, "t2">>}

\* What bot.send_photo(..., parse_mode=HTML) and the retry without parse_mode
\* can do: succeed, or the first is rejected with BadRequest and the retry
\* succeeds, or the retry raises, or the first raises another error.
SendOutcomes == {"ok", "bad_request_then_ok", "bad_request_then_error", "error"}

\* The try / except BadRequest / finally block shared by st_si_photo and
\* st_si_text: the messages that reached the chat and the exception that
\* leaves the block; the finally clause has removed the file in every case.
send_photo_block(caption, outcome) ==
    CASE outcome = "ok" ->
           [sent |-> << <<"photo", caption, "HTML">> >>, raised |-> "",
            attempts |-> <<"HTML:ok">>]
      [] outcome = "bad_request_then_ok" ->
           [sent |-> << <<"photo", caption, "plain">> >>, raised |-> "",
            attempts |-> <<"HTML:rejected", "plain:ok">>]
      [] outcome = "bad_request_then_error" ->
           [sent |-> <<>>, raised |-> "TelegramError",
            attempts |-> <<"HTML:rejected", "plain:error">>]
      [] OTHER -> [sent |-> <<>>, raised |-> "TelegramError", attempts |-> <<"HTML:error">>]

\* os.remove(path) with OSError ignored.
os_remove(files, path) == files \ {path}

\* st_si_photo on a photo: "Не найден chat_id ..." / sent at once when the
\* photo has a caption: "Отправил фото+текст ✅" / "Фото принято ✅ ...".
StSiPhoto(u, c, m) ==
    LET h == Dispatch(u, c, m)
        ud == user_data[u]
        chat_id == DictGet(ud, "si_chat_id", 0)   \* a missing key reads as falsy
        caption == normalize_text_for_send(Strip(m.text))
    IN  /\ h.fn = "st_si_photo"
        /\ IF chat_id = 0
           THEN /\ UpdateState(h.conv, <<c, u>>, END)
                /\ last' = Done(u, c, m, h, <<"si_no_chat_id">>, <<>>, "")
                /\ UNCHANGED <<user_data, tmp_uploads>>
           ELSE \E tmp_path \in TmpPaths(u) :
                IF Strip(m.text) # ""
                THEN \E outcome \in SendOutcomes :
                     LET r == send_photo_block(caption, outcome) IN
                     /\ tmp_uploads' = os_remove(tmp_uploads \cup {tmp_path}, tmp_path)
                     /\ IF r.raised # ""
                        THEN /\ user_data' = [user_data EXCEPT ![u] =
                                                 DictSet(ud, "si_photo_path", tmp_path)]
                             /\ UNCHANGED <<menu_conv, si_conv>>
                             /\ last' = [Done(u, c, m, h, <<>>, r.sent, r.raised)
                                            EXCEPT !.attempts = r.attempts]
                        ELSE /\ user_data' = [user_data EXCEPT ![u] =
                                                 DictPop(DictPop(ud, "si_chat_id"),
                                                         "si_photo_path")]
                             /\ UpdateState(h.conv, <<c, u>>, END)
                             /\ last' = [Done(u, c, m, h, <<"si_sent">>, r.sent, "")
                                            EXCEPT !.attempts = r.attempts]
                ELSE /\ tmp_uploads' = tmp_uploads \cup {tmp_path}
                     /\ user_data' = [user_data EXCEPT ![u] =
                                         DictSet(ud, "si_photo_path", tmp_path)]
                     /\ UpdateState(h.conv, <<c, u>>, SI_TEXT)
                     /\ last' = Done(u, c, m, h, <<"si_photo_accepted">>, <<>>, "")
        /\ UNCHANGED <<settings, schedule, duty_list, jokes, homework, today, cfg, edit_log, coros>>

\* st_si_text: "Что-то пошло не так ..." / "Отправил фото+текст ✅".  open() of
\* a path whose file is gone raises FileNotFoundError inside the try block.
StSiText(u, c, m) ==
    LET h == Dispatch(u, c, m)
        ud == user_data[u]
        chat_id == DictGet(ud, "si_chat_id", 0)   \* a missing key reads as falsy
        caption == normalize_text_for_send(Strip(m.text))
    IN  /\ h.fn = "st_si_text"
        /\ IF chat_id = 0 \/ "si_photo_path" \notin DOMAIN ud
           THEN /\ UpdateState(h.conv, <<c, u>>, END)
                /\ last' = Done(u, c, m, h, <<"si_start_again">>, <<>>, "")
                /\ UNCHANGED <<user_data, tmp_uploads>>
           ELSE IF ud["si_photo_path"] \notin tmp_uploads
           THEN /\ last' = Done(u, c, m, h, <<>>, <<>>, "FileNotFoundError")
                /\ UNCHANGED <<user_data, tmp_uploads, menu_conv, si_conv>>
           ELSE \E outcome \in SendOutcomes :
                LET r == send_photo_block(caption, outcome) IN
                /\ tmp_uploads' = os_remove(tmp_uploads, ud["si_photo_path"])
                /\ IF r.raised # ""
                   THEN /\ last' = [Done(u, c, m, h, <<>>, r.sent, r.raised)
                                       EXCEPT !.attempts = r.attempts]
                        /\ UNCHANGED <<user_data, menu_conv, si_conv>>
                   ELSE /\ user_data' = [user_data EXCEPT ![u] =
                                            DictPop(DictPop(ud, "si_chat_id"),
                                                    "si_photo_path")]
                        /\ UpdateState(h.conv, <<c, u>>, END)
                        /\ last' = [Done(u, c, m, h, <<"si_sent">>, r.sent, "")
                                       EXCEPT !.attempts = r.attempts]
        /\ UNCHANGED <<settings, schedule, duty_list, jokes, homework, today, cfg, edit_log, coros>>

\* st_si_photo_wrong: replies "Нужно фото одним сообщением ...", then
\* `return ST_SI_PHOTO` raises NameError (no such name): the state is not updated.
StSiPhotoWrong(u, c, m) ==
    LET h == Dispatch(u, c, m) IN
    /\ h.fn = "st_si_photo_wrong"
    /\ last' = Done(u, c, m, h, <<"si_need_photo">>, <<>>, "NameError")
    /\ UNCHANGED <<settings, schedule, duty_list, jokes, homework, tmp_uploads, menu_conv,
                   si_conv, user_data, today, cfg, edit_log, coros>>

\* st_si_text_wrong: replies "Теперь нужен текст ...", then `return ST_SI_TEXT`
\* raises NameError.
StSiTextWrong(u, c, m) ==
    LET h == Dispatch(u, c, m) IN
    /\ h.fn = "st_si_text_wrong"
    /\ last' = Done(u, c, m, h, <<"si_need_text">>, <<>>, "NameError")
    /\ UNCHANGED <<settings, schedule, duty_list, jokes, homework, tmp_uploads, menu_conv,
                   si_conv, user_data, today, cfg, edit_log, coros>>

-----------------------------------------------------------------------------
(* Plain commands, unhandled updates, jobs and the clock *)

CmdHelp(u, c, m) ==
    LET h == Dispatch(u, c, m) IN
    /\ h.fn = "cmd_help"
    /\ last' = Done(u, c, m, h, <<"help">>, <<>>, "")
    /\ UNCHANGED <<settings, schedule, duty_list, jokes, homework, tmp_uploads, menu_conv,
                   si_conv, user_data, today, cfg, edit_log, coros>>

\* /d
CmdDuty(u, c, m) ==
    LET h == Dispatch(u, c, m) IN
    /\ h.fn = "cmd_duty"
    /\ last' = [Done(u, c, m, h, cmd_duty(duty_list, today, cfg).reply, <<>>, "")
                   EXCEPT !.calc = cmd_duty(duty_list, today, cfg).calc]
    /\ UNCHANGED <<settings, schedule, duty_list, jokes, homework, tmp_uploads, menu_conv,
                   si_conv, user_data, today, cfg, edit_log, coros>>

\* /test: nothing at all for a non-admin.
CmdTest(u, c, m) ==
    LET h == Dispatch(u, c, m)
        s == ensure_first_admin_if_empty(settings, u, c)
    IN  /\ h.fn = "cmd_test"
        /\ settings' = s
        /\ last' = IF ~is_admin(s, u) THEN Done(u, c, m, h, <<>>, <<>>, "")
                   ELSE Done(u, c, m, h, cmd_test_body(s).reply, cmd_test_body(s).sent, "")
        /\ UNCHANGED <<schedule, duty_list, jokes, homework, tmp_uploads, menu_conv,
                       si_conv, user_data, today, cfg, edit_log, coros>>

\* /dz
CmdHomework(u, c, m) ==
    LET h == Dispatch(u, c, m)
        r == cmd_homework(homework, m.args, cfg, today)
    IN  /\ h.fn = "cmd_homework"
        /\ homework' = r.homework
        /\ last' = [Done(u, c, m, h, r.reply, <<>>, r.raised) EXCEPT !.calc = r.parsed]
        /\ UNCHANGED <<settings, schedule, duty_list, jokes, tmp_uploads, menu_conv,
                       si_conv, user_data, today, cfg, edit_log, coros>>

\* int(token) of a decimal with an optional sign: None when it raises ValueError.
signed_int_of(t) ==
    IF Len(t) > 1 /\ SubSeq(t, 1, 1) \in {"+", "-"}
    THEN LET v == int_of(SubSeq(t, 2, Len(t)))
         IN  IF v = None THEN None
             ELSE IF SubSeq(t, 1, 1) = "-" THEN Some(0 - v[1]) ELSE v
    ELSE int_of(t)

Max(a, b) == IF a >= b THEN a ELSE b
Min(a, b) == IF a <= b THEN a ELSE b

\* The days in ascending order: items.sort(key=lambda x: x[0]).
RECURSIVE sorted_days(_)
sorted_days(days) ==
    IF days = {} THEN <<>>
    ELSE LET first == CHOOSE d \in days : \A e \in days : d <= e
         IN  <<first>> \o sorted_days(days \ {first})

\* One line of the list: the task on one line, cut to 120 characters.
short_task(task) ==
    LET short == Replace(Strip(task), "\n", " ")
    IN  IF Len(short) > 120 THEN SubSeq(short, 1, 117) \o "..." ELSE short

\* cmd_homework_list: "Формат: /dz_list [N], ..." / "Ближайшей домашки нет 🎉" /
\* "🧾 Ближайшая домашка:" and a line (date, expiry, task) for each of the
\* first n entries from today on.
cmd_homework_list(hw_file, args, c, t) ==
    Once({
    LET hw == loaded.hw
        n == IF args = <<>> THEN 10 ELSE Max(1, Min(signed_int_of(args[1])[1], 50))
        days == {fromisoformat(k)[1] :
                    k \in {k2 \in DOMAIN hw : /\ fromisoformat(k2) # None
                                               /\ fromisoformat(k2)[1] >= t}}
        items == SubSeq(sorted_days(days), 1, Min(n, Cardinality(days)))
    IN  IF args # <<>> /\ signed_int_of(args[1]) = None
        THEN [homework |-> loaded.stored, reply |-> <<"hw_list_format">>]
        ELSE IF items = <<>>
        THEN [homework |-> loaded.stored, reply |-> <<"hw_list_none">>]
        ELSE [homework |-> loaded.stored,
              reply |-> <<"hw_list",
                          [i \in 1..Len(items) |->
                              <<strftime_dmy(items[i]),
                                strftime_dmy(expiry_of_homework(items[i], c)),
                                short_task(hw[isoformat(items[i])])>>]>>]
    : loaded \in {load_homework_clean(hw_file, c, t)}})

CmdHomeworkList(u, c, m) ==
    LET h == Dispatch(u, c, m)
        r == cmd_homework_list(homework, m.args, cfg, today)
    IN  /\ h.fn = "cmd_homework_list"
        /\ homework' = r.homework
        /\ last' = Done(u, c, m, h, r.reply, <<>>, "")
        /\ UNCHANGED <<settings, schedule, duty_list, jokes, tmp_uploads, menu_conv,
                       si_conv, user_data, today, cfg, edit_log, coros>>

\* Mutant of cmd_homework_edit: a date without an entry gets the new text.
cmd_homework_edit_upsert(s, hw_file, u, c, args, cf, t) ==
    Once({
    LET R(hw, reply, raised) ==
            [settings |-> s1, homework |-> hw, reply |-> reply, raised |-> raised]
    IN  IF ~is_admin(s1, u) THEN R(hw_file, <<"admins_only_command">>, "")
        ELSE IF p.raised # "" THEN R(hw_file, <<>>, p.raised)
        ELSE IF p.parsed = None THEN R(hw_file, <<"hw_edit_format">>, "")
        ELSE Once({
             IF new_task = "" THEN R(hw_file, <<"hw_edit_empty">>, "")
             ELSE R(DictSet(loaded.hw, key, new_task), <<"done">>, "")
             : key \in {isoformat(p.parsed[1][1])},
               new_task \in {Strip(Join(args, p.parsed[1][2] + 1))},
               loaded \in {load_homework_clean(hw_file, cf, t)}})
    : s1 \in {ensure_first_admin_if_empty(s, u, c)},
      p \in {parse_date_and_consumed(args, t)}})

\* cmd_homework_edit: "Эта команда только для админов." / "Формат: /dz_edit ..." /
\* "Новый текст пустой." / "На эту дату домашки нет." / "Готово ✅".
cmd_homework_edit(s, hw_file, u, c, args, cf, t) ==
    Once({
    LET R(hw, reply, raised) ==
            [settings |-> s1, homework |-> hw, reply |-> reply, raised |-> raised]
    IN  IF ~is_admin(s1, u) THEN R(hw_file, <<"admins_only_command">>, "")
        ELSE IF p.raised # "" THEN R(hw_file, <<>>, p.raised)
        ELSE IF p.parsed = None THEN R(hw_file, <<"hw_edit_format">>, "")
        ELSE Once({
             IF new_task = "" THEN R(hw_file, <<"hw_edit_empty">>, "")
             ELSE IF key \notin DOMAIN loaded.hw
             THEN R(loaded.stored, <<"hw_not_found">>, "")
             ELSE R(DictSet(loaded.hw, key, new_task), <<"done">>, "")
             : key \in {isoformat(p.parsed[1][1])},
               new_task \in {Strip(Join(args, p.parsed[1][2] + 1))},
               loaded \in {load_homework_clean(hw_file, cf, t)}})
    : s1 \in {ensure_first_admin_if_empty(s, u, c)},
      p \in {parse_date_and_consumed(args, t)}})

CmdHomeworkEdit(u, c, m) ==
    LET h == Dispatch(u, c, m)
        r == cmd_homework_edit(settings, homework, u, c, m.args, cfg, today)
    IN  /\ h.fn = "cmd_homework_edit"
        /\ settings' = r.settings
        /\ homework' = r.homework
        /\ last' = Done(u, c, m, h, r.reply, <<>>, r.raised)
        /\ UNCHANGED <<schedule, duty_list, jokes, tmp_uploads, menu_conv,
                       si_conv, user_data, today, cfg, edit_log, coros>>

\* Mutant of cmd_homework_del: the entry is deleted before the admin check.
cmd_homework_del_unchecked(s, hw_file, u, c, args, t) ==
    Once({
    LET R(hw, reply, raised) ==
            [settings |-> s1, homework |-> hw, reply |-> reply, raised |-> raised]
    IN  IF p.raised # "" THEN R(hw_file, <<>>, p.raised)
        ELSE IF p.parsed = None THEN R(hw_file, <<"hw_del_format">>, "")
        ELSE Once({
             IF key \notin DOMAIN hw_file THEN R(hw_file, <<"hw_not_found">>, "")
             ELSE IF ~is_admin(s1, u)
             THEN R(DictPop(hw_file, key), <<"admins_only_command">>, "")
             ELSE R(DictPop(hw_file, key),
                    <<"hw_deleted", strftime_dmy(p.parsed[1][1])>>, "")
             : key \in {isoformat(p.parsed[1][1])}})
    : s1 \in {ensure_first_admin_if_empty(s, u, c)},
      p \in {parse_date_and_consumed(args, t)}})

\* cmd_homework_del: "Эта команда только для админов." / "Формат: /dz_del 25.01" /
\* "На эту дату домашки нет." / "Удалил домашку на <date> ✅".  It reads the
\* file as it is, without the sweep.
cmd_homework_del(s, hw_file, u, c, args, t) ==
    Once({
    LET R(hw, reply, raised) ==
            [settings |-> s1, homework |-> hw, reply |-> reply, raised |-> raised]
    IN  IF ~is_admin(s1, u) THEN R(hw_file, <<"admins_only_command">>, "")
        ELSE IF p.raised # "" THEN R(hw_file, <<>>, p.raised)
        ELSE IF p.parsed = None THEN R(hw_file, <<"hw_del_format">>, "")
        ELSE Once({
             IF key \notin DOMAIN hw_file THEN R(hw_file, <<"hw_not_found">>, "")
             ELSE R(DictPop(hw_file, key),
                    <<"hw_deleted", strftime_dmy(p.parsed[1][1])>>, "")
             : key \in {isoformat(p.parsed[1][1])}})
    : s1 \in {ensure_first_admin_if_empty(s, u, c)},
      p \in {parse_date_and_consumed(args, t)}})

CmdHomeworkDel(u, c, m) ==
    LET h == Dispatch(u, c, m)
        r == cmd_homework_del(settings, homework, u, c, m.args, today)
    IN  /\ h.fn = "cmd_homework_del"
        /\ settings' = r.settings
        /\ homework' = r.homework
        /\ last' = Done(u, c, m, h, r.reply, <<>>, r.raised)
        /\ UNCHANGED <<schedule, duty_list, jokes, tmp_uploads, menu_conv,
                       si_conv, user_data, today, cfg, edit_log, coros>>

\* cmd_joke_add, a plain CommandHandler: the state it returns is dropped.
\* "Добавлять анекдоты можно в ЛС с ботом." / "Только для админов." /
\* "Ок! Пришли текст анекдота одним сообщением. ..."
cmd_joke_add(s, u, c) ==
    LET s1 == ensure_first_admin_if_empty(s, u, c)
    IN  IF ~is_private(c) THEN [settings |-> s1, reply |-> <<"joke_private_only">>]
        ELSE IF ~is_admin(s1, u) THEN [settings |-> s1, reply |-> <<"admins_only">>]
        ELSE [settings |-> s1, reply |-> <<"ask_joke_command">>]

CmdJokeAdd(u, c, m) ==
    LET h == Dispatch(u, c, m)
        r == cmd_joke_add(settings, u, c)
    IN  /\ h.fn = "cmd_joke_add"
        /\ settings' = r.settings
        /\ last' = Done(u, c, m, h, r.reply, <<>>, "")
        /\ UNCHANGED <<schedule, duty_list, jokes, homework, tmp_uploads, menu_conv,
                       si_conv, user_data, today, cfg, edit_log, coros>>

\* What bot.send_message(..., parse_mode=HTML) and reply_text(..., parse_mode=
\* HTML) can do: succeed, be rejected for the formatting (BadRequest), or fail
\* with another error.
HtmlOutcomes == {"ok", "bad_request", "error"}

\* cmd_send_to_chat (/s): nothing at all for a non-admin; "Сначала укажи чат ..." /
\* "Формат: /s <сообщение в HTML> ..." / the message and "Отправлено ✅".
\* No except clause: an exception of send_message ends the handler.
cmd_send_to_chat(s, u, c, args, outcome) ==
    LET s1 == ensure_first_admin_if_empty(s, u, c)
        R(reply, sent, raised, attempts) ==
            [settings |-> s1, reply |-> reply, sent |-> sent, raised |-> raised,
             attempts |-> attempts]
        text == normalize_text_for_send(Join(args, 1))
    IN  IF ~is_admin(s1, u) THEN R(<<>>, <<>>, "", <<>>)
        ELSE IF ~Truthy(s1.chat_id) THEN R(<<"set_chat_first">>, <<>>, "", <<>>)
        ELSE IF args = <<>> THEN R(<<"s_format">>, <<>>, "", <<>>)
        ELSE CASE outcome = "ok" ->
                    R(<<"s_sent">>, << <<"text", text, "HTML">> >>, "", <<"HTML:ok">>)
               [] outcome = "bad_request" -> R(<<>>, <<>>, "BadRequest", <<"HTML:rejected">>)
               [] OTHER -> R(<<>>, <<>>, "TelegramError", <<"HTML:error">>)

CmdSendToChat(u, c, m) ==
    LET h == Dispatch(u, c, m) IN
    /\ h.fn = "cmd_send_to_chat"
    /\ \E outcome \in HtmlOutcomes :
          LET r == cmd_send_to_chat(settings, u, c, m.args, outcome) IN
          /\ settings' = r.settings
          /\ last' = [Done(u, c, m, h, r.reply, r.sent, r.raised)
                         EXCEPT !.attempts = r.attempts]
    /\ UNCHANGED <<schedule, duty_list, jokes, homework, tmp_uploads, menu_conv,
                   si_conv, user_data, today, cfg, edit_log, coros>>

\* cmd_schedule (/r): the reply, sent with parse_mode=HTML and no except clause.
\* "📅 Расписание (<key>): <text> ..." / "⚠️ Не нашёл такой день. ..." /
\* "📅 Расписание (Пн–Пт): ..." with the days the map has.
cmd_schedule(data, args, outcome) ==
    LET key == normalize_day_query(Join(args, 1))
        msg == IF args # <<>>
               THEN IF key \in DOMAIN data THEN <<"schedule_day", key, data[key]>>
                    ELSE <<"schedule_not_found">>
               ELSE LET present == SelectSeq(DOW_CANON,
                                             LAMBDA canon : Lower(canon) \in DOMAIN data)
                    IN  <<"schedule_week",
                          [i \in 1..Len(present) |->
                              <<present[i], data[Lower(present[i])]>>]>>
    IN  CASE outcome = "ok" -> [reply |-> msg, raised |-> "", attempts |-> <<"HTML:ok">>]
          [] outcome = "bad_request" ->
               [reply |-> <<>>, raised |-> "BadRequest", attempts |-> <<"HTML:rejected">>]
          [] OTHER -> [reply |-> <<>>, raised |-> "TelegramError", attempts |-> <<"HTML:error">>]

CmdSchedule(u, c, m) ==
    LET h == Dispatch(u, c, m) IN
    /\ h.fn = "cmd_schedule"
    /\ \E outcome \in HtmlOutcomes :
          LET r == cmd_schedule(schedule, m.args, outcome) IN
          last' = [Done(u, c, m, h, r.reply, <<>>, r.raised) EXCEPT !.attempts = r.attempts]
    /\ UNCHANGED <<settings, schedule, duty_list, jokes, homework, tmp_uploads, menu_conv,
                   si_conv, user_data, today, cfg, edit_log, coros>>

\* str.endswith
EndsWith(x, suffix) ==
    Len(x) >= Len(suffix) /\ SubSeq(x, Len(x) - Len(suffix) + 1, Len(x)) = suffix

\* re.split(r"[;\n,]+", raw): the pieces between runs of separators; a
\* separator at either end leaves an empty piece there.
SplitChars == {";", "\n", ","}

RECURSIVE SplitEach(_, _)
SplitEach(t, cur) ==
    IF t = "" THEN <<cur>>
    ELSE IF SubSeq(t, 1, 1) \in SplitChars
    THEN <<cur>> \o SplitEach(SubSeq(t, 2, Len(t)), "")
    ELSE SplitEach(SubSeq(t, 2, Len(t)), cur \o SubSeq(t, 1, 1))

Split(raw) ==
    LET each == SplitEach(raw, "")
        keep == {i \in 1..Len(each) : each[i] # "" \/ i = 1 \/ i = Len(each)}
        Nth(n) == CHOOSE i \in keep : Cardinality({j \in keep : j < i}) = n - 1
    IN  [n \in 1..Cardinality(keep) |-> each[Nth(n)]]

\* The loop of "/d_set set": the entries of the pieces that are handles.
RECURSIVE entries_of_parts(_)
entries_of_parts(parts) ==
    IF parts = <<>> THEN <<>>
    ELSE LET u == normalize_username_input(Head(parts))
         IN  (IF u # None /\ u[1] \notin END_WORDS
              THEN <<duty_entry_from_username(u[1])>> ELSE <<>>)
             \o entries_of_parts(Tail(parts))

\* cmd_d_set: "Только для админов." / "Форматы: ..." / "Список пуст." /
\* "Дежурные: ..." / "Формат: /d_set add @username" / "Добавил ✅ <entry>" /
\* "Формат: /d_set remove @username" / "Не нашёл такого пользователя в списке." /
\* "Удалил ✅" / "Пусто. Пример: ..." / "Список обновлён ✅ (<n> чел.)" /
\* "Неизвестная подкоманда. ..."
cmd_d_set(s, dl, u, c, args) ==
    LET s1 == ensure_first_admin_if_empty(s, u, c)
        R(new_dl, reply) == [settings |-> s1, duty_list |-> new_dl, reply |-> reply]
        action == Lower(args[1])
        who == normalize_username_input(Join(args, 2))
        kept == SelectSeq(dl, LAMBDA x : ~EndsWith(x, ", " \o who[1]))
        new_list == entries_of_parts(Split(Strip(Join(args, 2))))
    IN  IF ~is_admin(s1, u) THEN R(dl, <<"admins_only">>)
        ELSE IF args = <<>> THEN R(dl, <<"d_set_formats">>)
        ELSE IF action = "list"
        THEN IF dl = <<>> THEN R(dl, <<"d_set_list_empty">>)
             ELSE R(dl, <<"d_set_list", dl>>)
        ELSE IF action = "add"
        THEN IF who = None \/ who[1] \in END_WORDS THEN R(dl, <<"d_set_add_format">>)
             ELSE R(Append(dl, duty_entry_from_username(who[1])),
                    <<"d_set_added", duty_entry_from_username(who[1])>>)
        ELSE IF action = "remove"
        THEN IF who = None \/ who[1] \in END_WORDS THEN R(dl, <<"d_set_remove_format">>)
             ELSE IF Len(kept) = Len(dl) THEN R(dl, <<"d_set_not_found">>)
             ELSE R(kept, <<"d_set_removed">>)
        ELSE IF action = "set"
        THEN IF new_list = <<>> THEN R(dl, <<"d_set_set_empty">>)
             ELSE R(new_list, <<"d_set_updated", Len(new_list)>>)
        ELSE R(dl, <<"d_set_unknown">>)

\* The roster is capped at MaxDuty entries to keep the state space finite.
CmdDSet(u, c, m) ==
    LET h == Dispatch(u, c, m)
        r == cmd_d_set(settings, duty_list, u, c, m.args)
    IN  /\ h.fn = "cmd_d_set"
        /\ Len(r.duty_list) <= MaxDuty
        /\ settings' = r.settings
        /\ duty_list' = r.duty_list
        /\ last' = Done(u, c, m, h, r.reply, <<>>, "")
        /\ UNCHANGED <<schedule, jokes, homework, tmp_uploads, menu_conv,
                       si_conv, user_data, today, cfg, edit_log, coros>>

\* homework_cleanup_job, run daily by the job queue; calc is the count it logs.
HomeworkCleanupJob ==
    LET r == cleanup_homework_in_memory(homework, cfg, today) IN
    /\ homework' = IF r.removed # 0 THEN r.cleaned ELSE homework
    /\ last' = [NoStep EXCEPT !.conv = "job", !.fn = "homework_cleanup_job",
                              !.calc = <<r.removed>>]
    /\ UNCHANGED <<settings, schedule, duty_list, jokes, tmp_uploads, menu_conv,
                   si_conv, user_data, today, cfg, edit_log, coros>>

\* An update no handler of group 0 accepts is dropped.
Unhandled(u, c, m) ==
    LET h == Dispatch(u, c, m) IN
    /\ h.conv = "none"
    /\ last' = Done(u, c, m, h, <<>>, <<>>, "")
    /\ UNCHANGED <<settings, schedule, duty_list, jokes, homework, tmp_uploads, menu_conv,
                   si_conv, user_data, today, cfg, edit_log, coros>>

\* duty_reminder_job, run daily by the job queue.
DutyReminderJob ==
    /\ last' = [NoStep EXCEPT
                   !.conv = "job", !.fn = "duty_reminder_job",
                   !.sent = duty_reminder_job(settings, duty_list, today, cfg).sent,
                   !.calc = duty_reminder_job(settings, duty_list, today, cfg).calc]
    /\ UNCHANGED <<settings, schedule, duty_list, jokes, homework, tmp_uploads, menu_conv,
                   si_conv, user_data, today, cfg, edit_log, coros>>

\* Midnight: the date advances.
NextDay(last_day) ==
    /\ today < last_day
    /\ today' = today + 1
    /\ last' = [NoStep EXCEPT !.conv = "clock", !.fn = "next_day"]
    /\ UNCHANGED <<settings, schedule, duty_list, jokes, homework, tmp_uploads, menu_conv,
                   si_conv, user_data, cfg, edit_log, coros>>

-----------------------------------------------------------------------------
(* Coroutines.  A handler or job is a coroutine: the event loop runs it      *)
(* from where it stands to its next await, and may run any other coroutine  *)
(* before it resumes it                                                      *)

\* What a handler that changes one record does: JsonStore.load, the change
\* in memory, JsonStore.save, the await of the reply, and the return.
LoadApplySave == <<"load", "apply", "save", "await", "return">>

\* Mutant of program: st_add_students awaits between its load and its save.
program_await_before_save(fn) ==
    CASE fn = "st_add_students" -> <<"load", "await", "apply", "save", "await", "return">>
      [] fn = "homework_cleanup_job" -> <<"load", "apply", "save", "return">>
      [] fn = "duty_reminder_job" -> <<"load", "await", "return">>
      [] OTHER -> LoadApplySave

\* The steps of a coroutine on the path that changes its record, in the
\* order of the source:
\*   st_add_students       load 984, append 986, save 987, await 990
\*   cmd_d_set (add)       load 829, append 844, save 845, await 846
\*   st_joke_add_text      load 656, append 657, save 658, await 659
\*   st_add_admin          load 963, add 964-966, save 967, await 969
\*   st_set_chat           load 951, set 952, save 953, await 954
\*   cmd_homework          load and sweep 505, set 521, save 522, await 524
\*   homework_cleanup_job  load 497, sweep 498, save 499-500, no await
\*   duty_reminder_job     load 466-471, await 492, no save
program(fn) ==
    CASE fn = "homework_cleanup_job" -> <<"load", "apply", "save", "return">>
      [] fn = "duty_reminder_job" -> <<"load", "await", "return">>
      [] OTHER -> LoadApplySave

\* The record a coroutine loads and saves.
store_of(fn) ==
    CASE fn \in {"st_add_students", "cmd_d_set", "duty_reminder_job"} -> "duty_list"
      [] fn = "st_joke_add_text" -> "jokes"
      [] fn \in {"st_add_admin", "st_set_chat"} -> "settings"
      [] fn \in {"cmd_homework", "homework_cleanup_job"} -> "homework"

\* The change a coroutine makes to the value it has loaded; s is
\* settings.json, which /d_set reads for its administrator check.
apply(co, value, s, c, t) ==
    CASE co.fn = "st_add_students" ->
           Append(value, duty_entry_from_username(normalize_username_input(Strip(co.arg))[1]))
      [] co.fn = "cmd_d_set" ->
           cmd_d_set(s, value, co.user, "priv", co.arg).duty_list
      [] co.fn = "st_joke_add_text" -> Append(value, Strip(co.arg))
      [] co.fn = "st_add_admin" ->
           [value EXCEPT !.admins = @ \cup {normalize_username_input(co.arg)[1]}]
      [] co.fn = "st_set_chat" -> [value EXCEPT !.chat_id = parse_chat_id(co.arg)]
      [] co.fn = "cmd_homework" -> cmd_homework(value, co.arg, c, t).homework
      [] co.fn = "homework_cleanup_job" ->
           LET r == cleanup_homework_in_memory(value, c, t)
           IN  IF r.removed # 0 THEN r.cleaned ELSE value

\* The four records as one, for a coroutine to read and write by name.
Stores == [settings |-> settings, duty_list |-> duty_list, jokes |-> jokes,
           homework |-> homework]

\* One step of coroutine co at position pc with the loaded value local.
step_of(prog, co, st) ==
    LET op == prog[st.pc]
        name == store_of(co.fn)
    IN  CASE op = "load" -> [st EXCEPT !.pc = @ + 1, !.local = st.stores[name]]
          [] op = "apply" -> [st EXCEPT !.pc = @ + 1, !.local = apply(co, st.local, st.stores.settings,
                                                                   cfg, today)]
          [] op = "save" -> [st EXCEPT !.pc = @ + 1, !.stores[name] = st.local]
          [] op \in {"await", "return"} -> [st EXCEPT !.pc = @ + 1]

\* The coroutine runs from its position up to and including its next await,
\* or to its end.
RECURSIVE run_to_await(_, _, _)
run_to_await(prog, co, st) ==
    IF st.pc > Len(prog) THEN st
    ELSE IF prog[st.pc] = "await" THEN step_of(prog, co, st)
    ELSE run_to_await(prog, co, step_of(prog, co, st))

\* The event loop runs coroutine i; what a finished coroutine had loaded is
\* dropped with its frame.
RunCoroutine(i) ==
    /\ i \in DOMAIN coros
    /\ LET co == coros[i]
           prog == program(co.fn)
           st == Once({run_to_await(prog, co,
                                    [pc |-> co.pc, local |-> co.local, stores |-> Stores])})
       IN
        /\ co.pc <= Len(prog)
        /\ settings' = st.stores.settings
        /\ duty_list' = st.stores.duty_list
        /\ jokes' = st.stores.jokes
        /\ homework' = st.stores.homework
        /\ coros' = [coros EXCEPT ![i].pc = st.pc,
                                  ![i].local = IF st.pc > Len(prog) THEN <<>> ELSE st.local]
        /\ UNCHANGED <<schedule, tmp_uploads, menu_conv, si_conv, user_data, today, cfg,
                       last, edit_log>>

-----------------------------------------------------------------------------
(* Specifications *)

\* A schedule.json written before the run: one text under every key the edit
\* dialog writes, and a key the dialog never writes ("суббота").
OldSchedule ==
    DictSet(ExpandBuf(EmptyDict, [d \in {DOW_CANON[i] : i \in 1..Len(DOW_CANON)} |-> "s0"], 1),
            "subbota", "s0")

InitCommon ==
    /\ jokes = <<>>
    /\ tmp_uploads = {}
    /\ menu_conv = [k \in Keys |-> END]
    /\ si_conv = [k \in Keys |-> END]
    /\ user_data = [u \in Users |-> EmptyDict]
    /\ last = NoStep
    /\ edit_log = [k \in Keys |-> [before |-> EmptyDict, texts |-> <<>>, saved |-> FALSE,
                                   appended |-> 0]]
    /\ coros = <<>>

\* The updates of the runs of both conversations: the entry commands, cancel,
\* a plain command, photos with and without caption, a document, and the
\* menu dialogs for the broadcast chat, an admin and the students.
ConvUpdates ==
    {Command(n) : n \in {"start", "menu", "si", "cancel", "help"}}
    \cup {Photo(""), Photo("cap"), Document}
    \cup {Text(t) : t \in {BTN_ADD_CHAT, BTN_ADD_ADMIN, BTN_ADD_STUDENTS,
                          "-1001", "end", "@petya"}}

\* One user in the private chat, from the first start of the bot.
Init ==
    /\ InitCommon
    /\ settings = settings_default
    /\ schedule = EmptyDict
    /\ homework = EmptyDict
    /\ duty_list = <<>>
    /\ today = 0
    /\ cfg = Config

Next ==
    \E u \in {"u1"}, c \in {"priv"} : \E m \in ConvUpdates :
        \/ CmdStart(u, c, m)
        \/ CmdMenu(u, c, m)
        \/ CmdCancel(u, c, m)
        \/ MenuRouter(u, c, m)
        \/ StSetChat(u, c, m)
        \/ StAddAdmin(u, c, m)
        \/ StAddStudents(u, c, m)
        \/ CmdSi(u, c, m)
        \/ StSiChat(u, c, m)
        \/ StSiPhoto(u, c, m)
        \/ StSiText(u, c, m)
        \/ StSiPhotoWrong(u, c, m)
        \/ StSiTextWrong(u, c, m)
        \/ CmdHelp(u, c, m)
        \/ Unhandled(u, c, m)

Spec == Init /\ [][Next]_vars

-----------------------------------------------------------------------------
(* The schedule edit dialog alone.  The dialog takes any text as a day's    *)
(* schedule, the button label too; the other text is one to strip.         *)

SchedUpdates ==
    {Command("start"), Command("cancel"), Text(BTN_EDIT_SCHEDULE), Text(" s2 ")}

InitSched ==
    /\ InitCommon
    /\ settings = settings_default
    /\ schedule \in {EmptyDict, OldSchedule}
    /\ homework = EmptyDict
    /\ duty_list = <<>>
    /\ today = 0
    /\ cfg = Config

NextSched ==
    \E u \in {"u1"}, c \in {"priv"} : \E m \in SchedUpdates :
        \/ CmdStart(u, c, m)
        \/ CmdCancel(u, c, m)
        \/ MenuRouter(u, c, m)
        \/ StEditSchedule(u, c, m)
        \/ Unhandled(u, c, m)

SpecSched == InitSched /\ [][NextSched]_vars

-----------------------------------------------------------------------------
(* The schedule edit dialog of one administrator in two chats: the private  *)
(* chat and a group.  The two conversations share context.user_data.  In   *)
(* the dialog the label of the button is a day's text like any other.       *)

SchedChatsUpdates ==
    {Command("start"), Command("cancel"), Text(BTN_EDIT_SCHEDULE)}

InitSchedChats ==
    /\ InitCommon
    /\ settings = [settings_default EXCEPT !.admins = {"@user1"}]
    /\ schedule = OldSchedule
    /\ homework = EmptyDict
    /\ duty_list = <<>>
    /\ today = 0
    /\ cfg = Config

NextSchedChats ==
    \E u \in {"u1"}, c \in Chats : \E m \in SchedChatsUpdates :
        \/ CmdStart(u, c, m)
        \/ CmdCancel(u, c, m)
        \/ MenuRouter(u, c, m)
        \/ StEditSchedule(u, c, m)
        \/ Unhandled(u, c, m)

SpecSchedChats == InitSchedChats /\ [][NextSchedChats]_vars

-----------------------------------------------------------------------------
(* The duty command and the duty job over rosters, dates and configurations *)

MinDay == SCHOOL_START - 1   \* the day before the default school start

\* A school year that starts on Thursday 2024-09-05 with a holiday on the
\* following Monday and Tuesday, and the default one without holidays.
AltConfig == [Config EXCEPT !.school_start = 3, !.holiday_periods = <<<<7, 8>>>>]
NoHolidayConfig == [Config EXCEPT !.holiday_periods = <<>>]

\* The rosters of at most n entries.
Rosters(n) == UNION {[1..l -> {"A", "B", "C"}] : l \in 0..n}

InitDuty ==
    /\ InitCommon
    /\ settings \in {settings_default, [settings_default EXCEPT !.chat_id = Some(-1001)]}
    /\ schedule = EmptyDict
    /\ homework = EmptyDict
    /\ duty_list \in Rosters(MaxRoster)
    /\ today = MinDay
    /\ cfg \in {Config, NoHolidayConfig, AltConfig}

NextDuty ==
    \/ \E u \in {"u1"}, c \in Chats : CmdDuty(u, c, Command("d"))
    \/ DutyReminderJob
    \/ NextDay(MaxDay)

SpecDuty == InitDuty /\ [][NextDuty]_vars

-----------------------------------------------------------------------------
(* The homework command and the sweep over several days.  homework.json may *)
(* hold entries from before the run: one long expired, one dated           *)
(* 2024-09-01 and one whose key is no date                                 *)

MinHwDay == 12      \* 2024-09-14, the first day of the homework runs

HwOld == ("2024-08-20" :> "older") @@ ("2024-09-01" :> "old") @@ ("junk" :> "x")

\* /dz without arguments, with an unparsable date, reading and saving
\* 2024-09-01 and tomorrow; one text has the characters /dz reformats.
HwArgs ==
    {<<>>, <<"xx">>, <<"01.09">>, <<"01.09", "t1">>, <<"01.09", "a;", "b:", "c">>,
     <<"zavtra">>, <<"zavtra", "t1">>}

InitHw ==
    /\ InitCommon
    /\ settings = [settings_default EXCEPT !.admins = {"@user1"}]
    /\ schedule = EmptyDict
    /\ homework \in {EmptyDict, HwOld}
    /\ duty_list = <<>>
    /\ today = MinHwDay
    /\ cfg = Config

NextHw ==
    \/ \E args \in HwArgs : CmdHomework("u1", "priv", Cmd("dz", args))
    \/ HomeworkCleanupJob
    \/ NextDay(MaxHwDay)

SpecHw == InitHw /\ [][NextHw]_vars

-----------------------------------------------------------------------------
(* Claims about the two conversations, checked under Spec *)

\* The conversation key of the last step.
LastKey == <<last.chat, last.user>>

\* The keys of user_data the dialogs use as scratch data.
ScratchKeys == {"students_added", "schedule_step", "schedule_buf",
                "si_chat_id", "si_photo_path"}

\* C1: an entry-point command (/start, /menu, /si) sent in any state is handled
\* by its entry point, puts the session into the entry state of that entry
\* point (Menu; for /si of an admin AwaitingBroadcastTarget or AwaitingPhoto)
\* and discards the scratch data of the interrupted dialog.
C1_EntryPointResets ==
    /\ last.upd = Command("start") =>
          /\ last.fn = "cmd_start"
          /\ menu_conv[LastKey] = ST_MENU
          /\ DOMAIN user_data[last.user] \cap ScratchKeys = {}
    /\ last.upd = Command("menu") =>
          /\ last.fn = "cmd_menu"
          /\ menu_conv[LastKey] = ST_MENU
          /\ DOMAIN user_data[last.user] \cap ScratchKeys = {}
    /\ last.upd = Command("si") =>
          /\ last.fn = "cmd_si"
          /\ is_admin(settings, last.user) => si_conv[LastKey] \in {SI_CHAT, SI_PHOTO}
          /\ DOMAIN user_data[last.user] \cap ScratchKeys \subseteq {"si_chat_id"}

\* C2: /cancel sent in any state of either dialog is handled by cmd_cancel and
\* leaves the session idle: the menu dialog in Menu (or absent) and no photo
\* broadcast state, so that the next text is no input of the cancelled dialog.
C2_CancelReturnsToMenu ==
    (last.upd = Command("cancel") /\ (last.from_menu # END \/ last.from_si # END)) =>
        /\ last.fn = "cmd_cancel"
        /\ menu_conv[LastKey] \in {END, ST_MENU}
        /\ si_conv[LastKey] = END

\* C3: once the photo broadcast of a user is over, by a send (successful or
\* not) or by /cancel, no temporary file it downloaded remains.
C3_TmpFileRemoved ==
    \A u \in Users :
        (si_conv[<<"priv", u>>] = END \/ (last.user = u /\ last.upd = Command("cancel")))
            => TmpPaths(u) \cap tmp_uploads = {}

\* C4: in AwaitingCaption the next plain text of the user is taken as the
\* caption by st_si_text; unless the transport or the file system raises, the
\* photo is sent with that caption and the photo broadcast session ends, with
\* or without an open menu session.
C4_CaptionTaken ==
    (last.upd.kind = "text" /\ last.from_si = SI_TEXT) =>
        /\ last.fn = "st_si_text"
        /\ last.raised = "" =>
              /\ Len(last.sent) = 1
              /\ last.sent[1][1] = "photo"
              /\ last.sent[1][2] = normalize_text_for_send(Strip(last.upd.text))
              /\ si_conv[LastKey] = END

\* C5: a user is never at once in a non-idle state of the menu dialog and in a
\* state of the photo broadcast.
C5_OneActiveState ==
    \A k \in Keys : ~(menu_conv[k] \notin {END, ST_MENU} /\ si_conv[k] # END)

\* A dialog step of the last update ended its dialog, or the update was /cancel.
ArrivedInMenu ==
    \/ /\ last.conv = "menu_conv"
       /\ last.from_menu \notin {END, ST_MENU}
       /\ menu_conv[LastKey] = ST_MENU
    \/ /\ last.conv = "si_conv"
       /\ last.from_si # END
       /\ si_conv[LastKey] = END
    \/ last.fn = "cmd_cancel"

\* C6: when a session arrives in Menu by a terminal transition or by cancel,
\* none of the scratch keys remains in the user's user_data.
C6_ScratchCleared ==
    ArrivedInMenu => DOMAIN user_data[last.user] \cap ScratchKeys = {}

-----------------------------------------------------------------------------
(* Claims about the schedule, checked under SpecSched *)

\* The aliases of the i-th canonical weekday, as lookup keys.
DayKeys(i) ==
    {normalize_day_query(build_schedule_aliases(DOW_CANON[i])[j]) :
        j \in 1..Len(build_schedule_aliases(DOW_CANON[i]))}

AllDayKeys == UNION {DayKeys(i) : i \in 1..Len(DOW_CANON)}

\* The last step was the edit dialog's step on its fifth text.
EditCompleted ==
    /\ last.fn = "st_edit_schedule"
    /\ last.from_menu = ST_EDIT_SCHEDULE
    /\ Len(edit_log[LastKey].texts) = Len(DOW_CANON)

C8_AliasesResolve ==
    /\ (\E k \in Keys : edit_log[k].saved) =>
          \A i \in 1..Len(DOW_CANON) : \A key \in DayKeys(i) :
             /\ key \in DOMAIN schedule
             /\ schedule[key] = schedule[Lower(DOW_CANON[i])]
    /\ EditCompleted =>
          \A i \in 1..Len(DOW_CANON) : \A key \in DayKeys(i) :
             schedule[key] = Strip(edit_log[LastKey].texts[i])

\* A completed edit with different texts on neighbouring days.
C8_Witness ==
    /\ EditCompleted
    /\ schedule["tu"] = BTN_EDIT_SCHEDULE
    /\ schedule["th"] = "s2"
    /\ schedule["sreda"] = "s2"
    /\ schedule["mn"] = BTN_EDIT_SCHEDULE

-----------------------------------------------------------------------------
(* Claims about the duty rotation, checked under SpecDuty *)

\* C9: whenever the duty index is computed (by the command or by the job) the
\* roster is non-empty and the school-day count is at least 1; the index is
\* (count - 1) mod n, lies in 0..n-1 and is the same for count + n.  With the
\* roster A, B, C, the default school start and no holidays, day 0
\* (2024-09-02) gives A and day 2 (2024-09-04) gives C.
C9_DutyIndex ==
    /\ last.calc # <<>> =>
          LET n == Len(duty_list)
              count == last.calc[1]
              idx == last.calc[2]
          IN  /\ n > 0
              /\ count >= 1
              /\ idx \in 0..(n - 1)
              /\ idx = (count - 1) % n
              /\ last.fn = "cmd_duty" => cmd_duty_idx(count + n, n) = idx
              /\ last.fn = "duty_reminder_job" => job_idx(count + n, n) = idx
    /\ (last.fn = "cmd_duty" /\ duty_list = <<"A", "B", "C">>
        /\ cfg \in {Config, NoHolidayConfig}) =>
          /\ today = 0 => last.reply = <<"duty_today", "A">>
          /\ today = 2 => last.reply = <<"duty_today", "C">>

\* The command on 2024-09-04 with the roster A, B, C and no holidays.
C9_Witness ==
    /\ last.fn = "cmd_duty"
    /\ duty_list = <<"A", "B", "C">>
    /\ cfg = NoHolidayConfig
    /\ today = 2
    /\ last.calc = <<3, 2>>

\* C10: with a broadcast chat configured, the duty job sends exactly the
\* reply of the duty command on the same date, roster and configuration, in
\* each of the four cases.
C10_JobMatchesCommand ==
    Truthy(settings.chat_id) =>
        /\ duty_reminder_job(settings, duty_list, today, cfg).sent
              = << cmd_duty(duty_list, today, cfg).reply >>
        /\ last.fn = "cmd_duty" =>
              << last.reply >> = duty_reminder_job(settings, duty_list, today, cfg).sent
        /\ last.fn = "duty_reminder_job" =>
              last.sent = << cmd_duty(duty_list, today, cfg).reply >>

\* The job naming the second of two entries after a holiday.
C10_Witness ==
    /\ last.fn = "duty_reminder_job"
    /\ cfg = AltConfig
    /\ today = 9
    /\ duty_list = <<"A", "B">>
    /\ last.sent = << <<"duty_today", "A">> >>

-----------------------------------------------------------------------------
(* Claims about homework, checked under SpecHw *)

-----------------------------------------------------------------------------
(* The students dialog.  The administrator writes in the private chat and   *)
(* in the group: the two conversations are separate, context.user_data is   *)
(* the user's in both.  The texts are a handle, a handle with spaces and an *)
(* upper-case letter, a handle that is too short, and two sentinels.        *)

StudentUpdates ==
    {Command("start"), Command("cancel")}
    \cup {Text(t) : t \in {BTN_ADD_STUDENTS, "@petya", " Vasya_1 ", "@pe", "end", " StoP"}}

InitStudents ==
    /\ InitCommon
    /\ settings = [settings_default EXCEPT !.admins = {"@user1"}]
    /\ schedule = EmptyDict
    /\ homework = EmptyDict
    /\ duty_list = <<>>
    /\ today = 0
    /\ cfg = Config

NextStudents ==
    \E c \in Chats : \E m \in StudentUpdates :
        \/ CmdStart("u1", c, m)
        \/ CmdCancel("u1", c, m)
        \/ MenuRouter("u1", c, m)
        \/ StAddStudents("u1", c, m)
        \/ Unhandled("u1", c, m)

SpecStudents == InitStudents /\ [][NextStudents]_vars

-----------------------------------------------------------------------------
(* The sends with parse_mode=HTML.  The administrator, with the broadcast   *)
(* chat set, sends /s, /r with and without a day, and a photo with and      *)
(* without a caption through /si; the transport accepts a send, rejects its *)
(* formatting, or fails.                                                    *)

SendUpdates ==
    {Command("si"), Command("cancel"), Photo(""), Photo("<b>cap"), Text("<b>txt")}
    \cup {Cmd("s", <<>>), Cmd("s", <<"<b>hi">>), Cmd("r", <<>>), Cmd("r", <<"Vtornik">>)}

InitSend ==
    /\ InitCommon
    /\ settings = [chat_id |-> Some(-1001), admins |-> {"@user1"}]
    /\ schedule \in {EmptyDict, OldSchedule}
    /\ homework = EmptyDict
    /\ duty_list = <<>>
    /\ today = 0
    /\ cfg = Config

NextSend ==
    \E m \in SendUpdates :
        \/ CmdSendToChat("u1", "priv", m)
        \/ CmdSchedule("u1", "priv", m)
        \/ CmdSi("u1", "priv", m)
        \/ CmdCancel("u1", "priv", m)
        \/ StSiPhoto("u1", "priv", m)
        \/ StSiText("u1", "priv", m)
        \/ StSiPhotoWrong("u1", "priv", m)
        \/ StSiTextWrong("u1", "priv", m)
        \/ Unhandled("u1", "priv", m)

SpecSend == InitSend /\ [][NextSend]_vars

-----------------------------------------------------------------------------
(* Adding a joke.  The administrator, in the private chat, uses the command *)
(* /joke_add and the menu button, and sends two texts.                      *)

JokeUpdates ==
    {Command("start"), Command("cancel"), Command("joke_add")}
    \cup {Text(t) : t \in {BTN_JOKE_ADD, " joke1 ", "joke2"}}

InitJoke ==
    /\ InitCommon
    /\ settings = [settings_default EXCEPT !.admins = {"@user1"}]
    /\ schedule = EmptyDict
    /\ homework = EmptyDict
    /\ duty_list = <<>>
    /\ today = 0
    /\ cfg = Config

NextJoke ==
    \E m \in JokeUpdates :
        \/ CmdStart("u1", "priv", m)
        \/ CmdCancel("u1", "priv", m)
        \/ MenuRouter("u1", "priv", m)
        \/ StJokeAddText("u1", "priv", m)
        \/ CmdJokeAdd("u1", "priv", m)
        \/ Unhandled("u1", "priv", m)

SpecJoke == InitJoke /\ [][NextJoke]_vars

-----------------------------------------------------------------------------
(* The date argument of /dz.  Every day of a week and the Monday after it;  *)
(* the arguments are the weekday names, short and full, some with capitals, *)
(* and day.month pairs, valid and not; none of them saves a text.           *)

HwOne == "2024-09-01" :> "old"

DateArgs ==
    {<<DOW_SHORT[i]>> : i \in 1..Len(DOW_SHORT)}
    \cup {<<DOW_FULL[i]>> : i \in 1..Len(DOW_FULL)}
    \cup {<<"Pn">>, <<"SREDA">>, <<"zavtra">>, <<"xx">>, <<"5">>}
    \cup {<<"29.02">>, <<"31.02">>, <<"31.02", "t1">>, <<"1.13">>, <<"0.05">>,
          <<"31", "02">>, <<"5", "13", "t1">>, <<"31", "aprelya">>, <<"5", "marta">>}

InitDate ==
    /\ InitCommon
    /\ settings = [settings_default EXCEPT !.admins = {"@user1"}]
    /\ schedule = EmptyDict
    /\ homework = HwOne
    /\ duty_list = <<>>
    /\ today = 0
    /\ cfg = Config

NextDate ==
    \/ \E args \in DateArgs : CmdHomework("u1", "priv", Cmd("dz", args))
    \/ NextDay(MaxDateDay)

SpecDate == InitDate /\ [][NextDate]_vars

-----------------------------------------------------------------------------
(* The homework commands and the sweep.  The file holds an entry that       *)
(* expired before the run began (the bot was not running at the hour of the *)
(* daily job), one that expires during the run, and a key that is no date.  *)
(* The administrator reads, lists, edits and deletes both dates.            *)

HwCmdUpdates ==
    {Cmd("dz", <<"20.08">>), Cmd("dz", <<"01.09">>), Cmd("dz", <<"05.05">>),
     Cmd("dz_list", <<>>), Cmd("dz_list", <<"1">>), Cmd("dz_list", <<"x">>),
     Cmd("dz_edit", <<"20.08", "new">>), Cmd("dz_edit", <<"01.09", "new">>),
     Cmd("dz_edit", <<"05.05", "new">>),
     Cmd("dz_del", <<"20.08">>), Cmd("dz_del", <<"01.09">>), Cmd("dz_del", <<"05.05">>)}

InitHwCmd ==
    /\ InitCommon
    /\ settings = [settings_default EXCEPT !.admins = {"@user1"}]
    /\ schedule = EmptyDict
    /\ homework = HwOld
    /\ duty_list = <<>>
    /\ today = MinHwDay
    /\ cfg = Config

NextHwCmd ==
    \/ \E m \in HwCmdUpdates :
          \/ CmdHomework("u1", "priv", m)
          \/ CmdHomeworkList("u1", "priv", m)
          \/ CmdHomeworkEdit("u1", "priv", m)
          \/ CmdHomeworkDel("u1", "priv", m)
    \/ HomeworkCleanupJob
    \/ NextDay(MaxHwDay)

SpecHwCmd == InitHwCmd /\ [][NextHwCmd]_vars

-----------------------------------------------------------------------------
(* Editing, deleting and removing what is not there.  The file holds the    *)
(* entries of HwOld and the roster two students; the administrator edits    *)
(* and deletes the homework of a date with and without an entry, and        *)
(* removes and adds handles that are and are not in the roster.             *)

MissingUpdates ==
    {Cmd("dz_edit", <<"05.05", "new">>), Cmd("dz_edit", <<"01.09", "new">>),
     Cmd("dz_del", <<"05.05">>), Cmd("dz_del", <<"01.09">>),
     Cmd("d_set", <<"remove", "@kolya">>), Cmd("d_set", <<"remove", "@petya">>),
     Cmd("d_set", <<"remove", "@pet">>), Cmd("d_set", <<"add", "@petya">>)}

InitMissing ==
    /\ InitCommon
    /\ settings = [settings_default EXCEPT !.admins = {"@user1"}]
    /\ schedule = EmptyDict
    /\ homework = HwOld
    /\ duty_list = <<"Petya P, @petya", "vasya, @vasya">>
    /\ today = MinHwDay
    /\ cfg = Config

NextMissing ==
    \/ \E m \in MissingUpdates :
          \/ CmdHomeworkEdit("u1", "priv", m)
          \/ CmdHomeworkDel("u1", "priv", m)
          \/ CmdDSet("u1", "priv", m)
    \/ HomeworkCleanupJob
    \/ NextDay(MaxHwDay)

SpecMissing == InitMissing /\ [][NextMissing]_vars

-----------------------------------------------------------------------------
(* Handlers and jobs in flight together.  Two coroutines write each record: *)
(* two users add a student while one adds an administrator, another sets    *)
(* the broadcast chat and the duty reminder reads; or two users add a joke  *)
(* while one saves homework and the daily sweep runs.  All start at their   *)
(* first line.                                                              *)

Coroutine(fn, u, arg) == [fn |-> fn, user |-> u, arg |-> arg, pc |-> 1, local |-> <<>>]

RosterCoroutines ==
    <<Coroutine("st_add_students", "u1", "@petya"),
      Coroutine("cmd_d_set", "u2", <<"add", "@vasya">>),
      Coroutine("st_add_admin", "u1", "@kolya"),
      Coroutine("st_set_chat", "u2", "-1001"),
      Coroutine("duty_reminder_job", "", "")>>

HomeworkCoroutines ==
    <<Coroutine("st_joke_add_text", "u1", " joke1 "),
      Coroutine("st_joke_add_text", "u2", "joke2"),
      Coroutine("cmd_homework", "u1", <<"zavtra", "t1">>),
      Coroutine("homework_cleanup_job", "", "")>>

InitAsync ==
    /\ settings = [settings_default EXCEPT !.admins = {"@user1", "@user2"}]
    /\ schedule = EmptyDict
    /\ duty_list = <<>>
    /\ jokes = <<>>
    /\ homework = HwOld
    /\ tmp_uploads = {}
    /\ menu_conv = [k \in Keys |-> END]
    /\ si_conv = [k \in Keys |-> END]
    /\ user_data = [u \in Users |-> EmptyDict]
    /\ today = MinHwDay
    /\ cfg = Config
    /\ last = NoStep
    /\ edit_log = [k \in Keys |-> [before |-> EmptyDict, texts |-> <<>>, saved |-> FALSE,
                                   appended |-> 0]]
    /\ coros \in {RosterCoroutines, HomeworkCoroutines}

NextAsync == \E i \in 1..Len(RosterCoroutines) : RunCoroutine(i)

SpecAsync == InitAsync /\ [][NextAsync]_vars

-----------------------------------------------------------------------------
(* The first administrator.  Three users, one without a username, from the  *)
(* first start of the bot: nobody is an administrator yet.  They send the   *)
(* entry commands, /help and the Help button (which never call the          *)
(* bootstrap), /test and two administrator buttons (which do), and a handle *)
(* for the dialog that adds an administrator.                               *)

AdminUpdates ==
    {Command(n) : n \in {"start", "menu", "si", "help", "test"}}
    \cup {Text(t) : t \in {BTN_ADD_ADMIN, BTN_TEST, BTN_HELP, "@user2"}}

\* Who writes where: u1 in both chats, the others in their private chats.
AdminKeys == {<<"priv", "u0">>, <<"priv", "u1">>, <<"grp", "u1">>, <<"priv", "u2">>}

InitAdmin ==
    /\ InitCommon
    /\ settings = settings_default
    /\ schedule = EmptyDict
    /\ homework = HwOne
    /\ duty_list = <<>>
    /\ today = MinHwDay
    /\ cfg = Config

NextAdmin ==
    \E k \in AdminKeys : \E m \in AdminUpdates :
        LET c == k[1]
            u == k[2]
        IN  \/ CmdStart(u, c, m)
            \/ CmdMenu(u, c, m)
            \/ MenuRouter(u, c, m)
            \/ StAddAdmin(u, c, m)
            \/ CmdSi(u, c, m)
            \/ CmdHelp(u, c, m)
            \/ CmdTest(u, c, m)
            \/ Unhandled(u, c, m)

SpecAdmin == InitAdmin /\ [][NextAdmin]_vars

-----------------------------------------------------------------------------
(* The administrator gate.  @user1 is the administrator and the broadcast   *)
(* chat is set.  u2 (in the private chat and in the group) and the user     *)
(* without a username send the entry commands, /cancel and every command    *)
(* and menu button that checks is_admin; the administrator opens the menu, enters    *)
(* the students dialog and deletes the homework entry.                      *)

GateUpdates ==
    {Command(n) : n \in {"start", "menu", "cancel", "si", "test", "joke_add"}}
    \cup {Cmd("dz_edit", <<"01.09", "new">>), Cmd("dz_del", <<"01.09">>),
          Cmd("s", <<"hi">>)}
    \cup {Cmd("d_set", args) : args \in {<<"list">>, <<"add", "@petya">>,
                                         <<"remove", "@petya">>, <<"set", "@petya;@vasya">>}}
    \cup {Text(t) : t \in {BTN_ADD_CHAT, BTN_ADD_ADMIN, BTN_ADD_STUDENTS,
                          BTN_EDIT_SCHEDULE, BTN_TEST, BTN_JOKE_ADD, "@user2"}}

GateKeys == {<<"priv", "u0">>, <<"priv", "u2">>, <<"grp", "u2">>}

GateAdminUpdates ==
    {Command("start"), Text(BTN_ADD_STUDENTS), Cmd("dz_del", <<"01.09">>)}

InitGate ==
    /\ InitCommon
    /\ settings = [chat_id |-> Some(-1001), admins |-> {"@user1"}]
    /\ schedule = EmptyDict
    /\ homework = HwOne
    /\ duty_list = <<>>
    /\ today = MinHwDay
    /\ cfg = Config

NextGate ==
    \/ \E k \in GateKeys : \E m \in GateUpdates :
          LET c == k[1]
              u == k[2]
          IN  \/ CmdStart(u, c, m)
              \/ CmdMenu(u, c, m)
              \/ CmdCancel(u, c, m)
              \/ MenuRouter(u, c, m)
              \/ CmdSi(u, c, m)
              \/ CmdTest(u, c, m)
              \/ CmdHomeworkEdit(u, c, m)
              \/ CmdHomeworkDel(u, c, m)
              \/ CmdJokeAdd(u, c, m)
              \/ CmdSendToChat(u, c, m)
              \/ CmdDSet(u, c, m)
              \/ Unhandled(u, c, m)
    \/ \E m \in GateAdminUpdates :
          \/ CmdStart("u1", "priv", m)
          \/ MenuRouter("u1", "priv", m)
          \/ CmdHomeworkDel("u1", "priv", m)

SpecGate == InitGate /\ [][NextGate]_vars


\* C11: the sweep keeps an entry with a date key d if and only if
\* today <= d + ttl, always keeps an entry whose key is no date, changes no
\* text it keeps, and the count it returns is the number of entries dropped.
\* With a TTL of 14 the entry of 2024-09-01 (day -1) is kept on 2024-09-15
\* (day 13) and removed on 2024-09-16 (day 14).
C11_SweepKeepsUnexpired ==
    [][last'.fn = "homework_cleanup_job" =>
          /\ \A k \in DOMAIN homework :
                k \in DOMAIN homework' <=>
                    \/ fromisoformat(k) = None
                    \/ today <= fromisoformat(k)[1] + cfg.homework_ttl_days
          /\ \A k \in DOMAIN homework' : k \in DOMAIN homework /\ homework'[k] = homework[k]
          /\ "junk" \in DOMAIN homework => "junk" \in DOMAIN homework'
          /\ last'.calc = <<Cardinality((DOMAIN homework) \ DOMAIN homework')>>
          /\ ("2024-09-01" \in DOMAIN homework /\ cfg.homework_ttl_days = 14) =>
                /\ today <= 13 => "2024-09-01" \in DOMAIN homework'
                /\ today >= 14 => "2024-09-01" \notin DOMAIN homework'
    ]_vars

\* The sweep of 2024-09-16 has just removed the entry of 2024-09-01 and kept
\* the entry whose key is no date.
C11_Witness ==
    /\ last.fn = "homework_cleanup_job"
    /\ today = 14
    /\ last.calc = <<1>>
    /\ "2024-09-01" \notin DOMAIN homework
    /\ "junk" \in DOMAIN homework

\* C12: for a fixed today, sweeping the result of a sweep removes nothing and
\* returns the same map.
C12_SweepIdempotent ==
    last.fn = "homework_cleanup_job" =>
        cleanup_homework_in_memory(homework, cfg, today) =
            [cleaned |-> homework, removed |-> 0]

\* A sweep that removed two entries at once.
C12_Witness ==
    /\ last.fn = "homework_cleanup_job"
    /\ last.calc = <<2>>
    /\ "junk" \in DOMAIN homework

\* The date key and the text of the save commands of the runs.
C13_Key(args, t) ==
    CASE args[1] = "01.09" -> "2024-09-01"
      [] args[1] = "zavtra" /\ t = 12 -> "2024-09-15"
      [] args[1] = "zavtra" /\ t = 13 -> "2024-09-16"
      [] args[1] = "zavtra" /\ t = 14 -> "2024-09-17"
      [] args[1] = "zavtra" /\ t = 15 -> "2024-09-18"
      [] args[1] = "zavtra" /\ t = 16 -> "2024-09-19"
      [] OTHER -> ""
C13_Day(args, t) == IF args[1] = "01.09" THEN -1 ELSE t + 1
C13_Text(args) == IF Len(args) = 2 THEN args[2] ELSE "a; b: c"
C13_Shown(args) == IF Len(args) = 2 THEN args[2] ELSE "a;\n b:\nc"

\* The last step saved a text with /dz for a date whose expiry has not passed.
C13_Saved(l, t) ==
    /\ l.fn = "cmd_homework"
    /\ Len(l.upd.args) >= 2
    /\ t <= C13_Day(l.upd.args, t) + 14

\* The step reads with /dz the date the step before it saved.
C13_ReadAfterSave ==
    /\ C13_Saved(last, today)
    /\ last'.fn = "cmd_homework"
    /\ last'.upd.args = <<last.upd.args[1]>>

\* C13 as claimed: the read that follows a save replies with the identical
\* text, and a save leaves the entries of all other dates unchanged.
C13_RoundTripIdentical ==
    [][/\ C13_ReadAfterSave =>
             /\ Len(last'.reply) = 4
             /\ last'.reply[1] = "hw_show"
             /\ last'.reply[3] = C13_Text(last.upd.args)
       /\ C13_Saved(last', today) =>
             \A k \in (DOMAIN homework) \ {C13_Key(last'.upd.args, today)} :
                 k \in DOMAIN homework' /\ homework'[k] = homework[k]
    ]_vars

\* C13 as amended: a save for a date whose expiry has not passed stores
\* exactly the given text under the date's key, replacing an earlier text;
\* the read that follows replies with that text in which ": " has become ":"
\* and a line break and every ";" is followed by a line break; the save
\* leaves the entries of all other dates unchanged, except that it drops the
\* entries the sweep drops.
C13_RoundTripFormatted ==
    [][/\ C13_ReadAfterSave =>
             /\ Len(last'.reply) = 4
             /\ last'.reply[1] = "hw_show"
             /\ last'.reply[3] = C13_Shown(last.upd.args)
             /\ homework' = homework
       /\ C13_Saved(last', today) =>
             LET key == C13_Key(last'.upd.args, today)
                 others == (DOMAIN homework) \ {key}
                 swept == {k \in others :
                              /\ k \in {"2024-08-20", "2024-09-01"}
                              /\ today > (IF k = "2024-08-20" THEN -13 ELSE -1) + 14}
             IN  /\ key # ""
                 /\ DOMAIN homework' = (others \ swept) \cup {key}
                 /\ homework'[key] = C13_Text(last'.upd.args)
                 /\ \A k \in others \ swept : homework'[k] = homework[k]
    ]_vars

\* A read of 2024-09-01 right after the save of the text with ";" and ": ".
C13_Witness ==
    /\ last.fn = "cmd_homework"
    /\ last.upd.args = <<"01.09">>
    /\ last.reply # <<>>
    /\ last.reply[1] = "hw_show"
    /\ last.reply[3] = "a;\n b:\nc"
    /\ homework["2024-09-01"] = "a; b: c"

-----------------------------------------------------------------------------
(* The first administrator *)

\* The handlers that call ensure_first_admin_if_empty; menu_router calls it
\* for every text but the four buttons open to everybody.
C14_RunsBootstrap(step) ==
    \/ step.fn \in {"cmd_start", "cmd_menu", "cmd_si", "cmd_test", "cmd_send_to_chat",
                    "cmd_homework_edit", "cmd_homework_del", "cmd_joke_add", "cmd_d_set"}
    \/ /\ step.fn = "menu_router"
       /\ Strip(step.upd.text) \notin {BTN_SCHEDULE, BTN_DUTY, BTN_HOMEWORK, BTN_HELP}

\* Once the set is non-empty no handler but the dialog that adds an
\* administrator changes it.
C14_LaterCallsChangeNothing ==
    (settings.admins # {} /\ last'.fn # "st_add_admin") => settings'.admins = settings.admins

\* C14 as stated: with an empty admin set, any private-chat interaction of a
\* user with a handle makes the admin set exactly that handle, and later
\* bootstrap calls leave the set unchanged.
C14_AnyInteractionSeeds ==
    [][/\ (settings.admins = {} /\ last'.chat = "priv" /\ username_tag(last'.user) # "")
            => settings'.admins = {username_tag(last'.user)}
       /\ C14_LaterCallsChangeNothing
    ]_vars

\* C14, amended: with an empty admin set, a private-chat interaction of a user
\* with a handle makes the admin set exactly that handle when its handler
\* runs the bootstrap and leaves the set empty when it does not; later
\* bootstrap calls leave the set unchanged.
C14_BootstrapSeeds ==
    [][/\ (settings.admins = {} /\ last'.chat = "priv" /\ username_tag(last'.user) # "")
            => settings'.admins = IF C14_RunsBootstrap(last')
                                  THEN {username_tag(last'.user)} ELSE {}
       /\ C14_LaterCallsChangeNothing
    ]_vars

\* @user2 was first; the later /menu of u1 in the private chat changed nothing.
C14_Witness ==
    /\ settings.admins = {"@user2"}
    /\ last.user = "u1"
    /\ last.chat = "priv"
    /\ last.fn = "cmd_menu"

\* C15: while the admin set is empty, a message in a chat that is not private
\* or from a user without a username leaves the settings as they are,
\* whatever handler it reaches.
C15_BootstrapNoOp ==
    [][(settings.admins = {} /\ (last'.chat # "priv" \/ username_tag(last'.user) = ""))
          => settings' = settings
    ]_vars

\* The user without a username has opened the menu in the private chat, u1
\* has just sent /test in the group, and there is still no administrator.
C15_Witness ==
    /\ settings = settings_default
    /\ menu_conv[<<"priv", "u0">>] = ST_MENU
    /\ last.user = "u1"
    /\ last.chat = "grp"
    /\ last.fn = "cmd_test"

-----------------------------------------------------------------------------
(* The administrator gate *)

\* C16: whenever the admin set is non-empty, a user who is not in it has no
\* session in a dialog state of the menu conversation or in a state of the
\* photo broadcast, and a step taken from Menu leaves the session in Menu.
C16_NonAdminStaysInMenu ==
    [][\A k \in Keys :
         /\ (settings'.admins # {} /\ username_tag(k[2]) \notin settings'.admins)
              => /\ menu_conv'[k] \in {END, ST_MENU}
                 /\ si_conv'[k] = END
         /\ (/\ settings.admins # {}
             /\ username_tag(k[2]) \notin settings.admins
             /\ menu_conv[k] = ST_MENU)
              => menu_conv'[k] = ST_MENU
    ]_vars

\* u2 has just pressed the students button in Menu and is still in Menu; the
\* same button has taken the administrator into the dialog.
C16_Witness ==
    /\ last.user = "u2"
    /\ last.fn = "menu_router"
    /\ last.upd.text = BTN_ADD_STUDENTS
    /\ last.from_menu = ST_MENU
    /\ menu_conv[<<last.chat, "u2">>] = ST_MENU
    /\ menu_conv[<<"priv", "u1">>] = ST_ADD_STUDENTS

\* The steps of the handlers that check is_admin before they act; menu_router
\* checks it for every text but the four buttons open to everybody.
GatedStep(step) ==
    \/ step.fn \in {"cmd_homework_edit", "cmd_homework_del", "cmd_joke_add",
                    "cmd_send_to_chat", "cmd_test", "cmd_si", "cmd_d_set"}
    \/ /\ step.fn = "menu_router"
       /\ Strip(step.upd.text) \notin {BTN_SCHEDULE, BTN_DUTY, BTN_HOMEWORK, BTN_HELP}

\* The step just taken was a gated one by a user outside a non-empty admin set
\* (the set only grows, so the user was outside it before the step too).
NonAdminGatedStep ==
    /\ GatedStep(last)
    /\ settings.admins # {}
    /\ username_tag(last.user) \notin settings.admins

\* C17: every gated operation of a non-admin is answered with the one generic
\* reply ("Ок."), never with one that names the restriction to admins.  Read
\* generously: a handler that answers nothing at all is let through.
C17_SameGenericReply ==
    NonAdminGatedStep =>
        /\ last.reply \in {<<>>, <<"ok_generic">>}
        /\ \A i \in 1..Len(last.reply) :
              last.reply[i] \notin {"admins_only", "admins_only_command"}

\* C18: a gated operation of a user outside a non-empty admin set leaves the
\* settings, the schedule, the duty roster, the homework and the jokes as they
\* were, sends nothing to the broadcast chat and leaves both conversations of
\* the user in their states.
C18_NonAdminChangesNothing ==
    [][(/\ GatedStep(last')
        /\ settings.admins # {}
        /\ username_tag(last'.user) \notin settings.admins)
         => /\ settings' = settings
            /\ schedule' = schedule
            /\ duty_list' = duty_list
            /\ homework' = homework
            /\ jokes' = jokes
            /\ tmp_uploads' = tmp_uploads
            /\ last'.sent = <<>>
            /\ menu_conv'[<<last'.chat, last'.user>>] = menu_conv[<<last'.chat, last'.user>>]
            /\ si_conv'[<<last'.chat, last'.user>>] = si_conv[<<last'.chat, last'.user>>]
    ]_vars

\* u2 has just sent /dz_del for the date that has an entry; the entry is there.
C18_Witness ==
    /\ last.user = "u2"
    /\ last.fn = "cmd_homework_del"
    /\ last.upd.args = <<"01.09">>
    /\ settings.admins = {"@user1"}
    /\ homework = HwOne

-----------------------------------------------------------------------------
(* The students dialog *)

C19_Sentinels == {"end", " StoP"}
C19_Handles == {"@petya", " Vasya_1 "}

\* C19: in the students dialog a handle appends exactly one entry and keeps
\* the state, a sentinel appends nothing, returns to Menu and reports the
\* number of entries this dialog has appended since it was entered, and any
\* other text appends nothing and keeps the state.
C19_StudentsDialog ==
    [][last'.fn = "st_add_students" =>
         LET k == <<last'.chat, last'.user>>
             text == last'.upd.text
         IN  IF text \in C19_Handles
             THEN /\ Len(duty_list') = Len(duty_list) + 1
                  /\ SubSeq(duty_list', 1, Len(duty_list)) = duty_list
                  /\ menu_conv'[k] = ST_ADD_STUDENTS
             ELSE IF text \in C19_Sentinels
             THEN /\ duty_list' = duty_list
                  /\ menu_conv'[k] = ST_MENU
                  /\ last'.reply = <<"students_done", Count(edit_log[k].appended)>>
             ELSE /\ duty_list' = duty_list
                  /\ menu_conv'[k] = ST_ADD_STUDENTS
    ]_vars

-----------------------------------------------------------------------------
(* Formatted sends *)

\* C20: a send with parse_mode=HTML whose formatting the transport rejects is
\* followed, in the same handler run, by one send of the same message without
\* a parse mode.
C20_HtmlRetriedAsPlain ==
    (last.attempts # <<>> /\ last.attempts[1] = "HTML:rejected")
        => /\ Len(last.attempts) = 2
           /\ last.attempts[2] \in {"plain:ok", "plain:error"}

-----------------------------------------------------------------------------
(* Adding a joke *)

\* C21: once an administrator's /joke_add in the private chat has been answered
\* with the request for the text, the menu conversation of the user awaits the
\* joke text, and the user's next text message becomes the new last element
\* of the joke list, the earlier jokes unchanged.
C21_JokeAddCommand ==
    [][(last.fn = "cmd_joke_add" /\ last.reply = <<"ask_joke_command">>)
          => /\ menu_conv[<<last.chat, last.user>>] = ST_JOKE_ADD
             /\ (/\ last'.user = last.user
                 /\ last'.chat = last.chat
                 /\ last'.upd.kind = "text")
                  => jokes' = Append(jokes, Strip(last'.upd.text))
    ]_vars

-----------------------------------------------------------------------------
(* The photo broadcast *)

\* C22: in SI_PHOTO an update that is not a photo is answered with the request
\* for a photo, the conversation stays in SI_PHOTO, the user's scratch data
\* are unchanged, and the handler raises nothing.
C22_NonPhotoReprompts ==
    [][(si_conv[<<last'.chat, last'.user>>] = SI_PHOTO
        /\ last'.conv = "si_conv"
        /\ last'.upd.kind # "photo")
          => /\ last'.reply = <<"si_need_photo">>
             /\ si_conv'[<<last'.chat, last'.user>>] = SI_PHOTO
             /\ user_data' = user_data
             /\ last'.raised = ""
    ]_vars

-----------------------------------------------------------------------------
(* The date argument *)

\* The weekday (Monday = 0) a first token names.
C23_Weekday ==
    [i \in 1..7 |-> <<DOW_SHORT[i]>>] \o [i \in 1..7 |-> <<DOW_FULL[i]>>]

C23_Named(args) ==
    CASE args = <<"Pn">> -> 0
      [] args = <<"SREDA">> -> 2
      [] \E i \in 1..14 : C23_Weekday[i] = args ->
           ((CHOOSE i \in 1..14 : C23_Weekday[i] = args) - 1) % 7
      [] OTHER -> -1

\* C23: when the first token of /dz is a weekday name, the parsed date falls on
\* that weekday, 1 to 7 days after today: today + 7 when today is that weekday.
C23_NextWeekday ==
    (last.fn = "cmd_homework" /\ C23_Named(last.upd.args) >= 0)
        => /\ Len(last.calc) = 2
           /\ last.calc[2] = 1
           /\ weekday(last.calc[1]) = C23_Named(last.upd.args)
           /\ last.calc[1] - today \in 1..7
           /\ (weekday(today) = C23_Named(last.upd.args)) => last.calc[1] = today + 7

\* /dz vtornik on a Tuesday: the date is the Tuesday a week later.
C23_Witness ==
    /\ last.fn = "cmd_homework"
    /\ last.upd.args = <<"vtornik">>
    /\ today = 1
    /\ last.calc = <<8, 1>>

-----------------------------------------------------------------------------
(* The homework commands and the sweep *)

\* The date keys of a map whose expiry lies strictly before day t.
C24_Expired(hw, t) ==
    {k \in DOMAIN hw : /\ fromisoformat(k) # None
                        /\ t > expiry_of_homework(fromisoformat(k)[1], cfg)}

\* C24: a homework command (/dz, /dz_list, /dz_edit, /dz_del) leaves no entry
\* in the map whose expiry is strictly before today, as the daily job does,
\* and never reports the deletion of such an entry.
C24_CommandsSweepFirst ==
    [][last'.fn \in {"cmd_homework", "cmd_homework_list",
                     "cmd_homework_edit", "cmd_homework_del"}
          => /\ C24_Expired(homework', today) = {}
             /\ (last'.reply # <<>> /\ last'.reply[1] = "hw_deleted")
                   => isoformat(parse_date_and_consumed(last'.upd.args, today)
                                    .parsed[1][1])
                          \notin C24_Expired(homework, today)
    ]_vars

-----------------------------------------------------------------------------
(* A day and month that are no date *)

\* The arguments of /dz whose day and month are no date of 2024.
C25_InvalidPairs ==
    {<<"31.02">>, <<"31.02", "t1">>, <<"1.13">>, <<"0.05">>, <<"31", "02">>,
     <<"5", "13", "t1">>, <<"31", "aprelya">>}

\* C25: /dz with a day and month that are no date is answered with one of the
\* two corrective replies, the handler raises nothing, and the homework map is
\* unchanged.
C25_InvalidPairIsFormatError ==
    [][(last'.fn = "cmd_homework" /\ last'.upd.args \in C25_InvalidPairs)
          => /\ last'.raised = ""
             /\ last'.reply \in {<<"hw_format">>, <<"hw_bad_date">>}
             /\ homework' = homework
    ]_vars

-----------------------------------------------------------------------------
(* What is not there *)

\* The step answered that the date has no homework, or that the handle is
\* not in the roster.
C26_NotFound ==
    \/ /\ last'.fn \in {"cmd_homework_edit", "cmd_homework_del"}
       /\ last'.reply = <<"hw_not_found">>
    \/ /\ last'.fn = "cmd_d_set"
       /\ last'.reply = <<"d_set_not_found">>

\* The step is /dz_edit or /dz_del for a date that has no entry, or
\* /d_set remove for a handle no entry of the roster ends with.
C26_Missing ==
    LET args == last'.upd.args
        p == parse_date_and_consumed(args, today)
    IN  \/ /\ last'.fn \in {"cmd_homework_edit", "cmd_homework_del"}
           /\ p.parsed # None
           /\ isoformat(p.parsed[1][1]) \notin DOMAIN homework
        \/ /\ last'.fn = "cmd_d_set"
           /\ Len(args) = 2 /\ args[1] = "remove"
           /\ \A i \in 1..Len(duty_list) : ~EndsWith(duty_list[i], ", " \o args[2])

\* C26 as stated: such a step replies not-found and leaves the homework map
\* and the duty roster exactly as they were.
C26_NotFoundChangesNothing ==
    [][C26_Missing => /\ C26_NotFound
                      /\ homework' = homework
                      /\ duty_list' = duty_list
    ]_vars

\* C26: such a step replies not-found and leaves the duty roster exactly as it
\* was and the homework map as it was except for the entries the expiry sweep
\* removes.
C26_NotFoundKeepsUnexpired ==
    [][C26_Missing => /\ C26_NotFound
                      /\ duty_list' = duty_list
                      /\ homework' \in {homework,
                                        cleanup_homework_in_memory(homework, cfg, today).cleaned}
    ]_vars

\* /dz_edit for a date without an entry has answered, the expired entry gone.
C26_Witness ==
    /\ last.fn = "cmd_homework_edit" /\ last.reply = <<"hw_not_found">>
    /\ last.upd.args = <<"05.05", "new">>
    /\ DOMAIN homework = {"2024-09-01", "junk"}
    /\ Len(duty_list) = 2

-----------------------------------------------------------------------------
(* Lost updates *)

\* Coroutine i has run past the last step of its program that writes.
C27_Saved(i) ==
    /\ \E k \in 1..Len(program(coros[i].fn)) : program(coros[i].fn)[k] = "save"
    /\ coros[i].pc > (CHOOSE k \in 1..Len(program(coros[i].fn)) :
                         /\ program(coros[i].fn)[k] = "save"
                         /\ \A j \in (k + 1)..Len(program(coros[i].fn)) :
                                program(coros[i].fn)[j] # "save")

\* The record holds what coroutine i has saved.
C27_Reflected(i) ==
    LET co == coros[i] IN
    CASE co.fn = "st_add_students" ->
           \E k \in 1..Len(duty_list) : duty_list[k] = "petya, @petya"
      [] co.fn = "cmd_d_set" ->
           \E k \in 1..Len(duty_list) : duty_list[k] = "vasya, @vasya"
      [] co.fn = "st_joke_add_text" ->
           \E k \in 1..Len(jokes) : jokes[k] = Strip(co.arg)
      [] co.fn = "st_add_admin" -> "@kolya" \in settings.admins
      [] co.fn = "st_set_chat" -> settings.chat_id = Some(-1001)
      [] co.fn = "cmd_homework" -> DictGet(homework, isoformat(MinHwDay + 1), "") = "t1"
      [] co.fn = "homework_cleanup_job" -> "2024-08-20" \notin DOMAIN homework
      [] OTHER -> TRUE

\* Every change a coroutine has saved is in the record, and the records hold
\* nothing else: one entry per student added, one per joke.
C27_EverySaveReflected ==
    /\ \A i \in 1..Len(coros) : C27_Saved(i) => C27_Reflected(i)
    /\ Len(duty_list) = Cardinality({i \in 1..Len(coros) :
                                       /\ store_of(coros[i].fn) = "duty_list"
                                       /\ C27_Saved(i)})
    /\ Len(jokes) = Cardinality({i \in 1..Len(coros) :
                                   /\ store_of(coros[i].fn) = "jokes"
                                   /\ C27_Saved(i)})

\* No coroutine is suspended between its load and its save.
C27_NoAwaitBetweenLoadAndSave ==
    \A i \in 1..Len(coros) :
        \A k \in 1..Len(program(coros[i].fn)) :
            (program(coros[i].fn)[k] = "save" /\ coros[i].pc <= k) => coros[i].pc = 1

\* C27: no coroutine is ever suspended between loading a record and saving
\* it, and whatever the order in which the event loop runs the coroutines
\* between their awaits, no saved change to settings, roster, homework or
\* jokes is lost.
C27_NoLostUpdate == C27_NoAwaitBetweenLoadAndSave /\ C27_EverySaveReflected

\* All coroutines have finished, the two students' handlers having been
\* suspended at their replies at the same time.
C27_Witness ==
    /\ \A i \in 1..Len(coros) : coros[i].pc > Len(program(coros[i].fn))
    /\ duty_list = <<"vasya, @vasya", "petya, @petya">>

-----------------------------------------------------------------------------
(* The photo waiting for its text *)

\* C28: while a conversation is in SI_TEXT the user's si_photo_path names a
\* file that is in TMP_UPLOADS, and a step that removes that file also takes
\* the conversation out of SI_TEXT.
C28_PhotoFileExists ==
    [][\A k \in Keys :
          /\ si_conv[k] = SI_TEXT
                => /\ "si_photo_path" \in DOMAIN user_data[k[2]]
                   /\ user_data[k[2]]["si_photo_path"] \in tmp_uploads
          /\ (/\ si_conv[k] = SI_TEXT
              /\ "si_photo_path" \in DOMAIN user_data[k[2]]
              /\ user_data[k[2]]["si_photo_path"] \in tmp_uploads
              /\ user_data[k[2]]["si_photo_path"] \notin tmp_uploads')
                => si_conv'[k] # SI_TEXT
    ]_vars

-----------------------------------------------------------------------------
(* The week the edit dialog writes *)

\* C29: a step that writes schedule.json is the edit dialog's, and the map it
\* writes has every alias key of each of the five days, with the text of the
\* day's canonical key: never a part of the week.
C29_EveryWriteFullWeek ==
    [][(schedule' # schedule \/ last'.reply = <<"schedule_saved">>)
          => /\ last'.fn = "st_edit_schedule"
             /\ DOMAIN schedule' = AllDayKeys
             /\ \A i \in 1..Len(DOW_CANON) : \A key \in DayKeys(i) :
                   /\ key \in DOMAIN schedule'
                   /\ schedule'[key] = schedule'[Lower(DOW_CANON[i])]
    ]_vars

\* The dialog in the group has saved the week with fewer than five texts of
\* its own, after a cancel in the group, the dialog in the private chat open.
C29_Witness ==
    /\ last.fn = "st_edit_schedule"
    /\ last.reply = <<"schedule_saved">>
    /\ last.chat = "grp"
    /\ Len(edit_log[<<"grp", "u1">>].texts) < Len(DOW_CANON)
    /\ menu_conv[<<"priv", "u1">>] = ST_EDIT_SCHEDULE
    /\ DOMAIN schedule = AllDayKeys

-----------------------------------------------------------------------------
(* The rotation from one school day to the next *)

\* Day d is a school day: not before the school start, no weekend day and
\* no holiday.
C30_SchoolDay(d) == d >= cfg.school_start /\ ~is_weekend(d) /\ ~is_holiday(d, cfg)

\* The first school day after day d, within a week and a holiday.
C30_NextSchoolDay(d) ==
    CHOOSE d2 \in (d + 1)..(d + 7) :
        /\ C30_SchoolDay(d2)
        /\ \A x \in (d + 1)..(d2 - 1) : ~C30_SchoolDay(x)

\* C30: when the command or the job has computed the index on a school day,
\* the roster unchanged, both compute (index + 1) mod n on the next school
\* day, and on every day between the two they name nobody.
C30_OnePositionPerSchoolDay ==
    (last.fn \in {"cmd_duty", "duty_reminder_job"} /\ last.calc # <<>>) =>
        LET n == Len(duty_list)
            d2 == C30_NextSchoolDay(today)
            s == [settings EXCEPT !.chat_id = Some(-1001)]
        IN  /\ C30_SchoolDay(today)
            /\ cmd_duty(duty_list, d2, cfg).calc[2] = (last.calc[2] + 1) % n
            /\ duty_reminder_job(s, duty_list, d2, cfg).calc[2] = (last.calc[2] + 1) % n
            /\ \A x \in (today + 1)..(d2 - 1) :
                  /\ cmd_duty(duty_list, x, cfg).reply = <<"no_duty_today">>
                  /\ duty_reminder_job(s, duty_list, x, cfg).sent
                        = << <<"no_duty_today">> >>

\* The command on Friday 2024-09-06, the second school day of a year that
\* starts on Thursday: B of A, B, C; after the weekend and a holiday on
\* Monday and Tuesday, Wednesday is C's.
C30_Witness ==
    /\ last.fn = "cmd_duty"
    /\ cfg = AltConfig
    /\ today = 4
    /\ duty_list = <<"A", "B", "C">>
    /\ last.reply = <<"duty_today", "B">>
    /\ C30_NextSchoolDay(today) = 9
    /\ cmd_duty(duty_list, 9, cfg).reply = <<"duty_today", "C">>
====
